---- MODULE Spec2Model ----
(***************************************************************************)
(* A model of the force-push secret scanner (src/force_push_scanner.py):   *)
(* input validation, base-commit resolution, the scan invoker, the shared  *)
(* findings file, the notification gate and the thread-pool orchestrator.  *)
(*                                                                         *)
(* Text is modelled as a sequence of one-character strings, so that the    *)
(* comparisons, strips and pattern matches of the code are computed and    *)
(* not assumed.                                                            *)
(***************************************************************************)
EXTENDS Integers, Sequences, FiniteSets, TLC

(***************************************************************************)
(* Bounds of the model.                                                    *)
(***************************************************************************)
\* rows of one input batch
MaxRows == 2
\* worker threads of the pool (max_workers is drawn from 1..MaxWorkers)
MaxWorkers == 2
\* stdout lines of one run of the external scan tool
MaxLines == 2
\* commits in the ancestor list of a candidate (rev-list output)
MaxAncestors == 3

(***************************************************************************)
(* Text helpers.                                                           *)
(***************************************************************************)
HexDigits == {"0", "1", "2", "3", "4", "5", "6", "7", "8", "9",
              "a", "b", "c", "d", "e", "f"}
DecDigits == {"0", "1", "2", "3", "4", "5", "6", "7", "8", "9"}
Whitespace == {" ", "\t", "\n"}

\* str.strip(): leading and trailing whitespace removed.
RECURSIVE LStrip(_)
LStrip(s) == IF s # <<>> /\ Head(s) \in Whitespace THEN LStrip(Tail(s)) ELSE s
RECURSIVE RStrip(_)
RStrip(s) ==
    IF s # <<>> /\ s[Len(s)] \in Whitespace
    THEN RStrip(SubSeq(s, 1, Len(s) - 1)) ELSE s
Strip(s) == RStrip(LStrip(s))

\* _SHA_RE = ^[0-9a-f]{7,40}$ used with fullmatch.
MinShaLen == 7
MaxShaLen == 40
SHA_RE_fullmatch(s) ==
    /\ Len(s) >= MinShaLen
    /\ Len(s) <= MaxShaLen
    /\ \A i \in 1..Len(s) : s[i] \in HexDigits

\* int(ts): succeeds on an optionally signed run of decimal digits with
\* surrounding whitespace.
IntParses(ts) ==
    LET t == Strip(ts)
        d == IF t # <<>> /\ Head(t) \in {"+", "-"} THEN Tail(t) ELSE t
    IN  d # <<>> /\ \A i \in 1..Len(d) : d[i] \in DecDigits

\* The value int(ts) returns for a text it accepts.
DigitValue(c) == CHOOSE n \in 0..9 : <<"0", "1", "2", "3", "4", "5", "6", "7", "8", "9">>[n + 1] = c
RECURSIVE DigitsValue(_)
DigitsValue(d) ==
    IF d = <<>> THEN 0
    ELSE 10 * DigitsValue(SubSeq(d, 1, Len(d) - 1)) + DigitValue(d[Len(d)])
IntValue(ts) ==
    LET t == Strip(ts)
    IN  IF Head(t) = "-" THEN 0 - DigitsValue(Tail(t))
        ELSE IF Head(t) = "+" THEN DigitsValue(Tail(t))
        ELSE DigitsValue(t)

(***************************************************************************)
(* Input validation: _validate_row and _gather_from_iter.                  *)
(* A row is a function from the column names it has to text.               *)
(***************************************************************************)
EXPECTED_FIELDS == {"repo_org", "repo_name", "before", "timestamp"}

\* A slip: the timestamp is not converted, so any text passes.
validate_row_any_timestamp(input_org, row) ==
    IF EXPECTED_FIELDS \ DOMAIN row # {} THEN [ok |-> FALSE, err |-> "missing"]
    ELSE LET repo_org == Strip(row["repo_org"])
             repo_name == Strip(row["repo_name"])
             before == Strip(row["before"])
         IN  IF repo_org = <<>> THEN [ok |-> FALSE, err |-> "org_empty"]
             ELSE IF repo_org # input_org THEN [ok |-> FALSE, err |-> "org_mismatch"]
             ELSE IF repo_name = <<>> THEN [ok |-> FALSE, err |-> "name_empty"]
             ELSE IF ~SHA_RE_fullmatch(before) THEN [ok |-> FALSE, err |-> "sha"]
             ELSE [ok |-> TRUE, repo_org |-> repo_org, repo_name |-> repo_name,
                   before |-> before, ts |-> 0]

\* The outcome of _validate_row: ok (the tuple) or a ValueError.
validate_row(input_org, row) ==
    IF EXPECTED_FIELDS \ DOMAIN row # {} THEN [ok |-> FALSE, err |-> "missing"]
    ELSE LET repo_org == Strip(row["repo_org"])
             repo_name == Strip(row["repo_name"])
             before == Strip(row["before"])
         IN  IF repo_org = <<>> THEN [ok |-> FALSE, err |-> "org_empty"]
             ELSE IF repo_org # input_org THEN [ok |-> FALSE, err |-> "org_mismatch"]
             ELSE IF repo_name = <<>> THEN [ok |-> FALSE, err |-> "name_empty"]
             ELSE IF ~SHA_RE_fullmatch(before) THEN [ok |-> FALSE, err |-> "sha"]
             ELSE IF ~IntParses(row["timestamp"]) THEN [ok |-> FALSE, err |-> "timestamp"]
             ELSE [ok |-> TRUE, repo_org |-> repo_org, repo_name |-> repo_name,
                   before |-> before, ts |-> IntValue(row["timestamp"])]

\* url = f"https://github.com/{repo_org}/{repo_name}"
RepoUrl(repo_org, repo_name) == <<"https://github.com/">> \o repo_org \o <<"/">> \o repo_name

\* A slip: every row opens an entry of its own.
ReposAppendNoMerge(repos, url, ev) == Append(repos, [url |-> url, commits |-> <<ev>>])

\* A slip: an event whose reference the repository already has is dropped.
RECURSIVE ReposAppendDedup(_, _, _)
ReposAppendDedup(repos, url, ev) ==
    IF repos = <<>> THEN << [url |-> url, commits |-> <<ev>>] >>
    ELSE IF Head(repos).url = url
         THEN IF \E i \in 1..Len(Head(repos).commits) : Head(repos).commits[i].before = ev.before
              THEN repos
              ELSE << [url |-> url, commits |-> Append(Head(repos).commits, ev)] >> \o Tail(repos)
         ELSE << Head(repos) >> \o ReposAppendDedup(Tail(repos), url, ev)

\* repos[url].append(...) on an insertion-ordered mapping, kept as a sequence
\* of [url, commits] entries in order of first insertion.
RECURSIVE ReposAppend(_, _, _)
ReposAppend(repos, url, ev) ==
    IF repos = <<>> THEN << [url |-> url, commits |-> <<ev>>] >>
    ELSE IF Head(repos).url = url
         THEN << [url |-> url, commits |-> Append(Head(repos).commits, ev)] >> \o Tail(repos)
         ELSE << Head(repos) >> \o ReposAppend(Tail(repos), url, ev)

\* The loop of _gather_from_iter over rows[i..]; terminate() ends the process.
RECURSIVE GatherLoop(_, _, _, _)
GatherLoop(input_org, rows, i, repos) ==
    IF i > Len(rows)
    THEN IF repos = <<>> THEN [terminated |-> TRUE, repos |-> <<>>]
         ELSE [terminated |-> FALSE, repos |-> repos]
    ELSE LET v == validate_row(input_org, rows[i])
         IN  IF ~v.ok THEN [terminated |-> TRUE, repos |-> <<>>]
             ELSE GatherLoop(input_org, rows, i + 1,
                     ReposAppend(repos, RepoUrl(v.repo_org, v.repo_name),
                                 [before |-> v.before, date |-> v.ts]))

gather_from_iter(input_org, rows) == GatherLoop(input_org, rows, 1, <<>>)

(***************************************************************************)
(* BaseCommitResolver: identify_base_commit.                               *)
(* The version-control client is the environment of one call:              *)
(*   anc      the lines git rev-list prints for the candidate, full-length *)
(*            object ids, the candidate's own id first;                    *)
(*   live     the ids for which git branch --contains prints a branch;     *)
(*   parent   the position in anc of the candidate's first parent, or 0    *)
(*            when rev-list <candidate>~1 fails (a root commit, a shallow   *)
(*            boundary);                                                   *)
(*   fetch, revlist, contains_fail_at  how the commands end.               *)
(***************************************************************************)
\* The full-length object id of commit n: 40 hexadecimal characters.
CommitInitials == <<"a", "b", "c", "d", "e">>
FullId(n) == [i \in 1..MaxShaLen |-> IF i = 1 THEN CommitInitials[n] ELSE "0"]
\* An admissible way to write commit n in the input: its first k characters.
AbbrevId(n, k) == SubSeq(FullId(n), 1, k)

NotFound == <<>>

ResolveReturn(value, checks, looked_up) ==
    [kind |-> "return", value |-> value, err |-> "none",
     checks |-> checks, parent_lookup |-> looked_up]
ResolveRaise(err, checks) ==
    [kind |-> "raise", value |-> NotFound, err |-> err,
     checks |-> checks, parent_lookup |-> FALSE]

\* commit != since_commit on line 409: a comparison of the two texts.
SameCommitText(commit, since_commit) == commit = since_commit

\* A slip: the loop running out of ancestors treated as an error.
LoopExhaustedRaises(checks) == ResolveRaise("other", checks)

\* Line 417: no ancestor was live; the empty string is returned.
LoopExhausted(checks) == ResolveReturn(NotFound, checks, FALSE)

\* A slip: the walk answering with the last live commit of the list.
WalkAncestorsLastLive(env, since_commit, i) ==
    LET liveAt == {j \in i..Len(env.anc) : env.anc[j] \in env.live}
    IN  IF liveAt = {} THEN LoopExhausted(Len(env.anc))
        ELSE LET j == CHOOSE k \in liveAt : \A m \in liveAt : m <= k
             IN  ResolveReturn(env.anc[j], j, FALSE)

\* The for loop of identify_base_commit from position i of the rev-list output.
RECURSIVE WalkAncestors(_, _, _)
WalkAncestors(env, since_commit, i) ==
    IF i > Len(env.anc) THEN LoopExhausted(i - 1)
    ELSE LET commit == env.anc[i]
         IN  IF env.contains_fail_at = i THEN ResolveRaise("other", i)
             ELSE IF commit \in env.live
                  THEN IF ~SameCommitText(commit, since_commit)
                       THEN ResolveReturn(commit, i, FALSE)
                       ELSE IF env.parent = 0
                            THEN ResolveReturn(NotFound, i, TRUE)
                            ELSE ResolveReturn(env.anc[env.parent], i, TRUE)
                  ELSE WalkAncestors(env, since_commit, i + 1)

identify_base_commit(env, since_commit) ==
    IF env.fetch = "not_our_ref" THEN ResolveRaise("not_our_ref", 0)
    ELSE IF env.fetch = "error" THEN ResolveRaise("other", 0)
    ELSE IF env.revlist = "error" THEN ResolveRaise("other", 0)
    ELSE WalkAncestors(env, since_commit, 1)

(***************************************************************************)
(* ScanInvoker: scan_with_trufflehog.                                      *)
(* One stdout line of the tool is garbage (not JSON), a JSON value that is *)
(* not an object, or a JSON object with the fields the code reads.         *)
(***************************************************************************)
VerifiedVals == {"true", "false", "absent"}
DetectorVals == {"name", "empty", "absent"}
\* git: nested Data.Git.commit present; nocommit: a non-empty object
\* without it; empty: {}.
MetadataVals == {"git", "nocommit", "empty", "absent"}
RawVals == {"secret", "absent"}

ObjectLines == [j : {"object"}, Verified : VerifiedVals, DetectorName : DetectorVals,
                SourceMetadata : MetadataVals, Raw : RawVals]
OtherLine(j) == [j |-> j, Verified |-> "absent", DetectorName |-> "absent",
                 SourceMetadata |-> "absent", Raw |-> "absent"]
Lines == ObjectLines \cup {OtherLine("garbage"), OtherLine("nonobject")}

\* Python truth of data.get(field, default) for the three fields of line 241.
VerifiedTruthy(data) == data.Verified = "true"
DetectorTruthy(data) == data.DetectorName = "name"
MetadataTruthy(data) == data.SourceMetadata \in {"git", "nocommit"}

\* A slip: the filter without its test of Verified.
AcceptsUnverified(data) == DetectorTruthy(data) /\ MetadataTruthy(data)

\* The condition of lines 241-243.
AcceptsLine(data) == VerifiedTruthy(data) /\ DetectorTruthy(data) /\ MetadataTruthy(data)

\* The loop of lines 237-244 over stdout[i..]: json.JSONDecodeError is
\* suppressed; data.get on a value that is no object raises AttributeError.
RECURSIVE FilterLines(_, _, _)
FilterLines(stdout, i, findings) ==
    IF i > Len(stdout) THEN [kind |-> "return", findings |-> findings]
    ELSE LET data == stdout[i]
         IN  IF data.j = "garbage" THEN FilterLines(stdout, i + 1, findings)
             ELSE IF data.j = "nonobject" THEN [kind |-> "raise", findings |-> <<>>]
             ELSE IF AcceptsLine(data) THEN FilterLines(stdout, i + 1, Append(findings, data))
             ELSE FilterLines(stdout, i + 1, findings)

\* A slip: every failure is retried while attempts remain.
RetriesAfterAnyFailure(outcome, attempt, max_retries) == attempt < max_retries

\* except RunCmdError, lines 247-253: retry on a timeout while attempts remain.
RetriesAfter(outcome, attempt, max_retries) == outcome.k = "timeout" /\ attempt < max_retries

\* The attempt loop of lines 224-253; outs[k] is how run() ends on attempt k:
\* [k |-> "ok", stdout |-> ...], [k |-> "timeout"] or [k |-> "error"].
RECURSIVE ScanAttempts(_, _, _)
ScanAttempts(outs, attempt, max_retries) ==
    LET o == outs[attempt + 1]
    IN  IF o.k = "ok"
        THEN LET r == FilterLines(o.stdout, 1, <<>>)
             IN  [kind |-> r.kind, findings |-> r.findings, invocations |-> attempt + 1]
        ELSE IF RetriesAfter(o, attempt, max_retries)
             THEN ScanAttempts(outs, attempt + 1, max_retries)
             ELSE [kind |-> "return", findings |-> <<>>, invocations |-> attempt + 1]

DefaultMaxRetries == 2
scan_with_trufflehog(outs) == ScanAttempts(outs, 0, DefaultMaxRetries)

(***************************************************************************)
(* The timeout budget and the tool's command line: estimate_repo_scan_time *)
(* and get_trufflehog_config. Times are seconds. The measured size of the  *)
(* workspace is a number of bytes, or the measurement raised (ok FALSE);   *)
(* the code compares bytes / (1024 * 1024) with a number of megabytes.     *)
(***************************************************************************)
BytesPerMB == 1048576
BaseTimeout == 900
MaxTimeout == 3600
ManyCommits == 100
SomeCommits == 50
LargeRepoMB == 500
MediumRepoMB == 100

Min2(a, b) == IF a <= b THEN a ELSE b
\* x * 2 and x * 1.5; the values that occur are whole numbers.
Doubled(x) == 2 * x
Times1_5(x) == (3 * x) \div 2

\* repo_size_mb > mb for a measured size.
OverMB(bytes, mb) == bytes > mb * BytesPerMB

\* A slip: the comparisons of the commit count include the boundary.
ScaleByCommitsInclusive(base_timeout, commit_count) ==
    IF commit_count >= ManyCommits THEN Doubled(base_timeout)
    ELSE IF commit_count >= SomeCommits THEN Times1_5(base_timeout)
    ELSE base_timeout

\* Lines 162-166.
ScaleByCommits(base_timeout, commit_count) ==
    IF commit_count > ManyCommits THEN Doubled(base_timeout)
    ELSE IF commit_count > SomeCommits THEN Times1_5(base_timeout)
    ELSE base_timeout

\* Lines 169-176: a measurement that raises leaves the timeout as it is.
ScaleBySize(base_timeout, size) ==
    IF ~size.ok THEN base_timeout
    ELSE IF OverMB(size.bytes, LargeRepoMB) THEN Doubled(base_timeout)
    ELSE IF OverMB(size.bytes, MediumRepoMB) THEN Times1_5(base_timeout)
    ELSE base_timeout

estimate_repo_scan_time(size, commit_count) ==
    Min2(ScaleBySize(ScaleByCommits(BaseTimeout, commit_count), size), MaxTimeout)

\* Lines 218-222 of scan_with_trufflehog: the size is 0 when it cannot be
\* measured.
MeasuredOrZero(size) == IF size.ok THEN size.bytes ELSE 0

HugeRepoMB == 1000
HugeCommits == 200

\* A slip: the small and the large setting exchanged.
ConcurrencyInverted(bytes, commit_count) ==
    IF OverMB(bytes, HugeRepoMB) \/ commit_count > HugeCommits THEN "8"
    ELSE IF OverMB(bytes, MediumRepoMB) \/ commit_count > SomeCommits THEN "4"
    ELSE "2"

\* Lines 190-198.
Concurrency(bytes, commit_count) ==
    IF OverMB(bytes, HugeRepoMB) \/ commit_count > HugeCommits THEN "2"
    ELSE IF OverMB(bytes, MediumRepoMB) \/ commit_count > SomeCommits THEN "4"
    ELSE "8"

get_trufflehog_config(bytes, commit_count) ==
    <<"trufflehog", "git", "--no-update", "--json", "--only-verified",
      "--concurrency", Concurrency(bytes, commit_count)>>

\* A slip: every attempt runs with the first budget.
AttemptTimeoutFlat(estimated_timeout, attempt) == estimated_timeout

\* Lines 215 and 226: timeouts[min(attempt, len(timeouts) - 1)], attempt
\* counted from 0.
AttemptTimeout(estimated_timeout, attempt) ==
    <<estimated_timeout, estimated_timeout * 2, estimated_timeout * 3>>[Min2(attempt, 2) + 1]

\* What run() is called with on each attempt the call makes (lines 226-234):
\* the estimate and the size are taken once, before the loop.
InvocationLog(outs, est_size, cfg_size, commit_count) ==
    [a \in 1..scan_with_trufflehog(outs).invocations |->
        [timeout_seconds |-> AttemptTimeout(estimate_repo_scan_time(est_size, commit_count),
                                            a - 1),
         cmd |-> get_trufflehog_config(MeasuredOrZero(cfg_size), commit_count)]]

(***************************************************************************)
(* The state of one process running run_scanner.                           *)
(***************************************************************************)
VARIABLES
    rows,              \* the rows read from the events file or the database
    max_workers,       \* run_scanner's max_workers
    opc,               \* where the main thread is
    repos,             \* the mapping built by _gather_from_iter
    task,              \* one record per submitted future, in submission order
    collected,         \* futures the as_completed loop has handled
    total_commits_scanned,
    completed_repos,
    findings_count,    \* the global _findings_count
    notified_orgs,     \* the global _notified_orgs
    file_lock,         \* holder of _file_lock: a task, or 0 when free
    file,              \* the result file: whether it exists, and its text
    tmpdirs,           \* the gh-repo-* directories that exist, by owning task
    obs,               \* what an observer has counted so far (history only)
    fx                 \* a function under test, with its input and output

vars == <<rows, max_workers, opc, repos, task, collected, total_commits_scanned,
          completed_repos, findings_count, notified_orgs, file_lock, file,
          tmpdirs, obs, fx>>

InputOrg == <<"o">>

(***************************************************************************)
(* The result file is a sequence of tokens: the opening delimiter, comma,  *)
(* one element (a finding as json.dump writes it), the leading part of an  *)
(* element whose dump failed, and the closing delimiter.                   *)
(***************************************************************************)
\* f['repository_url'], f['scanned_commit'] added in place (lines 493-495).
Enrich(f, repo_url, before) ==
    [j |-> f.j, Verified |-> f.Verified, DetectorName |-> f.DetectorName,
     SourceMetadata |-> f.SourceMetadata, Raw |-> f.Raw,
     repository_url |-> repo_url, scanned_commit |-> before]
NoFinding == Enrich(OtherLine("none"), <<>>, <<>>)
Tok(k, f) == [k |-> k, f |-> f]
TokOpen == Tok("open", NoFinding)
TokComma == Tok("comma", NoFinding)
TokClose == Tok("close", NoFinding)

NoFile == [exists |-> FALSE, text |-> <<>>]

\* json.loads of the file's text succeeds with a list: "[", elements
\* separated by single commas, "]".
RECURSIVE ElementList(_)
ElementList(toks) ==
    \/ toks = <<>>
    \/ Len(toks) = 1 /\ toks[1].k = "elem"
    \/ /\ Len(toks) >= 3
       /\ toks[1].k = "elem"
       /\ toks[2].k = "comma"
       /\ ElementList(SubSeq(toks, 3, Len(toks)))
ParsesAsArray(text) ==
    /\ Len(text) >= 2
    /\ text[1].k = "open"
    /\ text[Len(text)].k = "close"
    /\ ElementList(SubSeq(text, 2, Len(text) - 1))
IsElem(tok) == tok.k = "elem"
Elements(text) == SelectSeq(text, IsElem)
IsComma(tok) == tok.k = "comma"
Commas(text) == SelectSeq(text, IsComma)

(***************************************************************************)
(* Inputs of a run.                                                        *)
(***************************************************************************)
\* An abbreviated reference (7 characters), a full one, and text that is
\* one character too short to be a reference.
RefA == AbbrevId(1, MinShaLen)
RefB == FullId(2)
RefShort == AbbrevId(1, MinShaLen - 1)

Row(name, before) ==
    [repo_org |-> InputOrg, repo_name |-> name, before |-> before,
     timestamp |-> <<"1", "7">>]
\* The abbreviated reference as a file may hold it, with blanks around it.
RefAPadded == <<" ">> \o RefA \o <<" ">>
\* Seven characters, one of them no hexadecimal digit.
RefNotHex == <<"g">> \o SubSeq(RefA, 2, MinShaLen)
\* Rows _validate_row accepts: two repositories, each with an abbreviated
\* and a full reference.
GoodRows == {Row(<<"r">>, RefA), Row(<<"r">>, RefB),
             Row(<<"s">>, RefAPadded), Row(<<"s">>, RefB)}
\* Rows it rejects, one for each of its checks.
RowNoTimestamp == [f \in EXPECTED_FIELDS \ {"timestamp"} |-> Row(<<"r">>, RefA)[f]]
BadRows ==
    {RowNoTimestamp,
     [Row(<<"r">>, RefA) EXCEPT !["repo_org"] = <<>>],
     [Row(<<"r">>, RefA) EXCEPT !["repo_org"] = <<"p">>],
     [Row(<<"r">>, RefA) EXCEPT !["repo_name"] = <<" ">>],
     Row(<<"r">>, RefShort),
     Row(<<"r">>, RefNotHex),
     [Row(<<"r">>, RefA) EXCEPT !["timestamp"] = <<"1", ".", "5">>],
     [Row(<<"r">>, RefA) EXCEPT !["timestamp"] = <<>>]}
RunRows == GoodRows \cup BadRows
Batches == UNION {[1..n -> RunRows] : n \in 0..MaxRows}

\* A finding as the tool prints it when it verified a secret.
GoodLine == [j |-> "object", Verified |-> "true", DetectorName |-> "name",
             SourceMetadata |-> "git", Raw |-> "secret"]

\* What an earlier run of the same process may have left behind.
StaleFile == [exists |-> TRUE,
              text |-> <<TokOpen, Tok("elem", Enrich(GoodLine, <<"old">>, RefA)), TokClose>>]

ObsInit ==
    [opened |-> FALSE, open_failed |-> FALSE,
     append_calls |-> 0, appended |-> 0, append_failed |-> 0,
     close_attempts |-> 0, close_failed |-> FALSE,
     unlink_attempts |-> 0, unlink_failed |-> FALSE,
     valid_findings |-> 0, gate_inserts |-> 0,
     dispatches |-> 0, dispatch_outcome |-> "none",
     summary_printed |-> FALSE, progress |-> <<>>, sweeps |-> 0]

FxIdle == [fn |-> "none"]

Init ==
    /\ rows \in Batches
    /\ max_workers \in 1..MaxWorkers
    /\ opc = "gather"
    /\ repos = <<>>
    /\ task = <<>>
    /\ collected = {}
    /\ total_commits_scanned = 0
    /\ completed_repos = 0
    /\ findings_count \in {0, 1}
    /\ notified_orgs \in {{}, {InputOrg}}
    /\ file_lock = 0
    /\ file \in {NoFile, StaleFile}
    /\ tmpdirs \in {{}, {0}}
    /\ obs = ObsInit
    /\ fx = FxIdle

(***************************************************************************)
(* The main thread: run_scanner and scan_commits.                          *)
(***************************************************************************)
\* run_scanner, lines 689-694: gather_commits validates every row and
\* terminate() exits the process on the first bad one.
Gather ==
    /\ opc = "gather"
    /\ LET g == gather_from_iter(InputOrg, rows)
       IN  /\ opc' = IF g.terminated THEN "terminated" ELSE "begin"
           /\ repos' = g.repos
    /\ UNCHANGED <<rows, max_workers, task, collected, total_commits_scanned,
                   completed_repos, findings_count, notified_orgs, file_lock,
                   file, tmpdirs, obs, fx>>

\* A slip: the count of the previous run is kept.
BeginResetKeepsCount ==
    /\ findings_count' = findings_count
    /\ notified_orgs' = {}
    /\ tmpdirs' = {}

\* scan_commits, lines 563-585: the count and the notified set are reset,
\* leftover workspaces are swept, and the file is created holding "[".
BeginReset ==
    /\ findings_count' = 0
    /\ notified_orgs' = {}
    /\ tmpdirs' = {}

OpenOk ==
    /\ opc = "begin"
    /\ file_lock = 0
    /\ BeginReset
    /\ file' = [exists |-> TRUE, text |-> <<TokOpen>>]
    /\ obs' = [obs EXCEPT !.opened = TRUE, !.sweeps = @ + 1]
    /\ opc' = "submit"
    /\ UNCHANGED <<rows, max_workers, repos, task, collected,
                   total_commits_scanned, completed_repos, file_lock, fx>>

\* open() raises: the error is printed and scan_commits returns.
OpenFail ==
    /\ opc = "begin"
    /\ file_lock = 0
    /\ BeginReset
    /\ obs' = [obs EXCEPT !.open_failed = TRUE, !.sweeps = @ + 1]
    /\ opc' = "open_failed"
    /\ UNCHANGED <<rows, max_workers, repos, task, collected,
                   total_commits_scanned, completed_repos, file_lock, file, fx>>

NewTask(n) ==
    [repo |-> n, pc |-> "queued", i |-> 0, commit_counter |-> 0, repo_findings |-> 0,
     since |-> NotFound, findings |-> <<>>, k |-> 0, exc |-> FALSE,
     result |-> <<0, 0>>,
     clone_failed |-> FALSE, resolves |-> 0, scans |-> 0,
     res |-> <<>>, scanned |-> {}, found |-> 0,
     created |-> FALSE, released |-> "no"]

\* executor.submit, lines 596-599: one future per item of repos.
Submit ==
    /\ opc = "submit"
    /\ Len(task) < Len(repos)
    /\ task' = Append(task, NewTask(Len(task) + 1))
    /\ opc' = IF Len(task) + 1 = Len(repos) THEN "collect" ELSE "submit"
    /\ UNCHANGED <<rows, max_workers, repos, collected, total_commits_scanned,
                   completed_repos, findings_count, notified_orgs, file_lock,
                   file, tmpdirs, obs, fx>>

Finished(t) == task[t].pc \in {"returned", "raised"}
AfterCollect(t) == IF collected \cup {t} = 1..Len(repos) THEN "close" ELSE "collect"

\* Line 609: the progress line is printed at this value of completed_repos.
ProgressEvery == 10
ProgressDue(completed, total_repos) ==
    completed % ProgressEvery = 0 \/ completed = total_repos

\* as_completed yields a finished future; future.result() returns the tuple
\* (lines 605-611).
CollectReturned(t) ==
    /\ opc = "collect"
    /\ t \notin collected
    /\ task[t].pc = "returned"
    /\ total_commits_scanned' = total_commits_scanned + task[t].result[1]
    /\ completed_repos' = completed_repos + 1
    /\ obs' = [obs EXCEPT !.progress = IF ProgressDue(completed_repos + 1, Len(repos))
                                       THEN Append(@, completed_repos + 1) ELSE @]
    /\ collected' = collected \cup {t}
    /\ opc' = AfterCollect(t)
    /\ UNCHANGED <<rows, max_workers, repos, task, findings_count, notified_orgs,
                   file_lock, file, tmpdirs, fx>>

\* A slip: the counter of a task that raised added to the total.
CollectRaisedCounts(t) ==
    /\ opc = "collect"
    /\ t \notin collected
    /\ task[t].pc = "raised"
    /\ total_commits_scanned' = total_commits_scanned + task[t].commit_counter
    /\ collected' = collected \cup {t}
    /\ opc' = AfterCollect(t)
    /\ UNCHANGED <<rows, max_workers, repos, task, completed_repos, findings_count,
                   notified_orgs, file_lock, file, tmpdirs, obs, fx>>

\* A slip: no except clause, so the exception leaves scan_commits.
CollectRaisedAborts(t) ==
    /\ opc = "collect"
    /\ t \notin collected
    /\ task[t].pc = "raised"
    /\ collected' = collected \cup {t}
    /\ opc' = "done"
    /\ UNCHANGED <<rows, max_workers, repos, task, total_commits_scanned,
                   completed_repos, findings_count, notified_orgs, file_lock,
                   file, tmpdirs, obs, fx>>

\* A slip: the except clause sweeps the workspaces.
CollectRaisedSweeps(t) ==
    /\ opc = "collect"
    /\ t \notin collected
    /\ task[t].pc = "raised"
    /\ collected' = collected \cup {t}
    /\ opc' = AfterCollect(t)
    /\ tmpdirs' = {}
    /\ obs' = [obs EXCEPT !.sweeps = @ + 1]
    /\ UNCHANGED <<rows, max_workers, repos, task, total_commits_scanned,
                   completed_repos, findings_count, notified_orgs, file_lock,
                   file, fx>>

\* future.result() re-raises the task's exception; except Exception prints
\* it and the loop goes on (lines 613-614).
CollectRaised(t) ==
    /\ opc = "collect"
    /\ t \notin collected
    /\ task[t].pc = "raised"
    /\ collected' = collected \cup {t}
    /\ opc' = AfterCollect(t)
    /\ UNCHANGED <<rows, max_workers, repos, task, total_commits_scanned,
                   completed_repos, findings_count, notified_orgs, file_lock,
                   file, tmpdirs, obs, fx>>

\* Lines 616-621: "\n]" is appended; a failure is printed.
CloseOk ==
    /\ opc = "close"
    /\ file' = [exists |-> TRUE, text |-> Append(file.text, TokClose)]
    /\ obs' = [obs EXCEPT !.close_attempts = @ + 1]
    /\ opc' = "summary"
    /\ UNCHANGED <<rows, max_workers, repos, task, collected, total_commits_scanned,
                   completed_repos, findings_count, notified_orgs, file_lock,
                   tmpdirs, fx>>

CloseFail ==
    /\ opc = "close"
    /\ obs' = [obs EXCEPT !.close_attempts = @ + 1, !.close_failed = TRUE]
    /\ opc' = "summary"
    /\ UNCHANGED <<rows, max_workers, repos, task, collected, total_commits_scanned,
                   completed_repos, findings_count, notified_orgs, file_lock,
                   file, tmpdirs, fx>>

\* A slip: the empty file is kept.
KeepsFileAlways == TRUE

\* Lines 628-638: the file is kept when the count is positive and unlinked
\* otherwise; then the workspaces are swept again.
KeepsFile == findings_count > 0


SummaryKeep ==
    /\ opc = "summary"
    /\ KeepsFile
    /\ obs' = [obs EXCEPT !.summary_printed = TRUE, !.sweeps = @ + 1]
    /\ tmpdirs' = {}
    /\ opc' = "done"
    /\ UNCHANGED <<rows, max_workers, repos, task, collected, total_commits_scanned,
                   completed_repos, findings_count, notified_orgs, file_lock,
                   file, fx>>

SummaryUnlink ==
    /\ opc = "summary"
    /\ ~KeepsFile
    /\ file' = NoFile
    /\ obs' = [obs EXCEPT !.unlink_attempts = @ + 1, !.summary_printed = TRUE,
                          !.sweeps = @ + 1]
    /\ tmpdirs' = {}
    /\ opc' = "done"
    /\ UNCHANGED <<rows, max_workers, repos, task, collected, total_commits_scanned,
                   completed_repos, findings_count, notified_orgs, file_lock, fx>>

\* findings_file.unlink() raises: except Exception: pass.
SummaryUnlinkFail ==
    /\ opc = "summary"
    /\ ~KeepsFile
    /\ obs' = [obs EXCEPT !.unlink_attempts = @ + 1, !.unlink_failed = TRUE,
                          !.summary_printed = TRUE, !.sweeps = @ + 1]
    /\ tmpdirs' = {}
    /\ opc' = "done"
    /\ UNCHANGED <<rows, max_workers, repos, task, collected, total_commits_scanned,
                   completed_repos, findings_count, notified_orgs, file_lock,
                   file, fx>>

(***************************************************************************)
(* What the external commands may answer during a run.                     *)
(***************************************************************************)
\* The commit a reference names: git resolves an unambiguous abbreviation.
CommitOf(ref) ==
    CHOOSE n \in 1..Len(CommitInitials) : ref = SubSeq(FullId(n), 1, Len(ref))

\* The ancestor list of candidate c holding m commits: the candidate, then
\* commits 3, 4, ...
AncestorList(c, m) == [i \in 1..m |-> IF i = 1 THEN FullId(c) ELSE FullId(i + 1)]
Range(f) == {f[i] : i \in DOMAIN f}

\* Every environment of one identify_base_commit call with at most n
\* ancestors. A commit contained in a branch has all its ancestors contained
\* in it, so a live candidate makes the whole list live.
Envs(c, n) ==
    UNION {
      { [anc |-> AncestorList(c, m), live |-> lv, parent |-> p,
         fetch |-> f, revlist |-> r, contains_fail_at |-> x] :
            lv \in {l \in SUBSET Range(AncestorList(c, m)) :
                       FullId(c) \in l => l = Range(AncestorList(c, m))},
            p \in {0} \cup 2..m,
            f \in {"ok", "not_our_ref", "error"},
            r \in {"ok", "error"},
            x \in 0..m }
      : m \in 1..n }

RunEnvs(before) == Envs(CommitOf(before), 2)

OutTimeout == [k |-> "timeout", stdout |-> <<>>]
OutError == [k |-> "error", stdout |-> <<>>]
OutOk(stdout) == [k |-> "ok", stdout |-> stdout]

\* The outputs of the tool a run is checked with.
NoRawLine == [GoodLine EXCEPT !.Raw = "absent"]
UnverifiedLine == [GoodLine EXCEPT !.Verified = "false"]
RunStdouts == {<<>>, <<GoodLine>>, <<NoRawLine>>, <<UnverifiedLine>>,
               <<OtherLine("nonobject")>>}
RunOuts ==
    {<<OutOk(so), OutError, OutError>> : so \in RunStdouts}
    \cup {<<OutTimeout, OutOk(<<GoodLine>>), OutError>>,
          <<OutTimeout, OutTimeout, OutTimeout>>,
          <<OutError, OutError, OutError>>}

(***************************************************************************)
(* A worker thread of the pool running scan_single_repo for future t.      *)
(***************************************************************************)
mainVars == <<rows, max_workers, opc, repos, collected, total_commits_scanned,
              completed_repos, fx>>

Commits(t) == repos[task[t].repo].commits
Url(t) == repos[task[t].repo].url
Running(t) == task[t].pc \notin {"queued", "returned", "raised"}
NumRunning == Cardinality({t \in 1..Len(task) : Running(t)})

\* A slip: the critical sections entered without taking the lock.
LockIgnored == TRUE

\* `with _file_lock`: the lock can be taken when no thread holds it.
LockFree == file_lock = 0

\* The head of `for c in commits` (lines 474-477) at position i: events whose
\* `before` does not match _SHA_RE are passed over; after the last event the
\* finally block runs.
RECURSIVE ForLoop(_, _, _)
ForLoop(tr, commits, i) ==
    IF i > Len(commits)
    THEN [tr EXCEPT !.pc = "cleanup", !.i = i, !.findings = <<>>, !.k = 0,
                    !.since = NotFound]
    ELSE IF ~SHA_RE_fullmatch(commits[i].before)
         THEN ForLoop(tr, commits, i + 1)
         ELSE [tr EXCEPT !.pc = "resolve", !.i = i, !.findings = <<>>, !.k = 0,
                         !.since = NotFound]

\* The end of one pass of `for f in findings` (lines 492-503).
NextFinding(tr, commits) ==
    IF tr.k < Len(tr.findings)
    THEN [tr EXCEPT !.pc = "write", !.k = tr.k + 1]
    ELSE ForLoop(tr, commits, tr.i + 1)

\* A slip: the check of the secret's content left out.
NotifiableWithoutRaw(f) ==
    /\ VerifiedTruthy(f)
    /\ DetectorTruthy(f)
    /\ f.SourceMetadata = "git"

\* The checks of send_immediate_notification, lines 58-65.
NotifiableFinding(f) ==
    /\ VerifiedTruthy(f)
    /\ DetectorTruthy(f)
    /\ f.Raw = "secret"
    /\ f.SourceMetadata = "git"

\* After write_finding_to_file returned: repo_findings += 1, the finding is
\* printed, and send_immediate_notification runs up to its lock.
AfterWrite(tr, commits) ==
    LET tr2 == [tr EXCEPT !.repo_findings = tr.repo_findings + 1]
    IN  IF NotifiableFinding(tr.findings[tr.k])
        THEN [tr2 EXCEPT !.pc = "gate"]
        ELSE NextFinding(tr2, commits)

\* A slip: a thread for every submitted work item, whatever max_workers.
CanStartUnbounded(t) ==
    /\ task[t].pc = "queued"
    /\ \A u \in 1..(t - 1) : task[u].pc # "queued"

\* A thread of the pool takes the next queued work item (the queue is FIFO)
\* and tempfile.mkdtemp creates the workspace (line 441).
CanStart(t) ==
    /\ task[t].pc = "queued"
    /\ \A u \in 1..(t - 1) : task[u].pc # "queued"
    /\ NumRunning < max_workers

StartOk(t) ==
    /\ CanStart(t)
    /\ tmpdirs' = tmpdirs \cup {t}
    /\ task' = [task EXCEPT ![t].pc = "clone", ![t].created = TRUE]
    /\ UNCHANGED <<mainVars, findings_count, notified_orgs, file_lock, file, obs>>

\* mkdtemp raises before the try block: the future ends with the exception.
StartFail(t) ==
    /\ CanStart(t)
    /\ task' = [task EXCEPT ![t].pc = "raised"]
    /\ UNCHANGED <<mainVars, findings_count, notified_orgs, file_lock, file,
                   tmpdirs, obs>>

\* git clone succeeded (lines 456-469; a failing git config is ignored).
CloneOk(t) ==
    /\ task[t].pc = "clone"
    /\ task' = [task EXCEPT ![t] = ForLoop(task[t], Commits(t), 1)]
    /\ UNCHANGED <<mainVars, findings_count, notified_orgs, file_lock, file,
                   tmpdirs, obs>>

\* A slip: the clone's RunCmdError not caught.
CloneFailRaises(t) ==
    /\ task[t].pc = "clone"
    /\ task' = [task EXCEPT ![t].pc = "cleanup", ![t].clone_failed = TRUE,
                            ![t].exc = TRUE]
    /\ UNCHANGED <<mainVars, findings_count, notified_orgs, file_lock, file,
                   tmpdirs, obs>>

\* except RunCmdError: return repo_url, 0, 0 (lines 471-472), through finally.
CloneFail(t) ==
    /\ task[t].pc = "clone"
    /\ task' = [task EXCEPT ![t].pc = "cleanup", ![t].clone_failed = TRUE]
    /\ UNCHANGED <<mainVars, findings_count, notified_orgs, file_lock, file,
                   tmpdirs, obs>>

\* A slip: every failed resolution ends the loop.
ResolveErrorAlwaysBreaks(tr, commits, err) == [tr EXCEPT !.pc = "cleanup"]

\* A slip: every failed resolution passes to the next event.
ResolveErrorAlwaysContinues(tr, commits, err) == ForLoop(tr, commits, tr.i + 1)

\* except RunCmdError, lines 483-487: "not our ref" in the message continues
\* with the next event, any other message breaks out of the loop.
OnResolveError(tr, commits, err) ==
    IF err = "not_our_ref" THEN ForLoop(tr, commits, tr.i + 1)
    ELSE [tr EXCEPT !.pc = "cleanup"]

\* A slip: an empty result of the resolution treated as nothing to scan.
AfterResolveSkipsEmpty(tr0, r, commits) ==
    LET tr == [tr0 EXCEPT !.commit_counter = @ + 1, !.resolves = @ + 1,
                          !.res = Append(@, [ev |-> tr0.i,
                                             out |-> IF r.kind = "return" THEN "ok" ELSE r.err])]
    IN  IF r.kind = "return"
        THEN IF r.value = NotFound THEN ForLoop(tr, commits, tr.i + 1)
             ELSE [tr EXCEPT !.pc = "scan", !.since = r.value]
        ELSE OnResolveError(tr, commits, r.err)

\* A slip: the counter incremented after the resolution, when it returned.
AfterResolveCountsResolved(tr0, r, commits) ==
    LET tr == [tr0 EXCEPT !.commit_counter = IF r.kind = "return" THEN @ + 1 ELSE @,
                          !.resolves = @ + 1,
                          !.res = Append(@, [ev |-> tr0.i,
                                             out |-> IF r.kind = "return" THEN "ok" ELSE r.err])]
    IN  IF r.kind = "return" THEN [tr EXCEPT !.pc = "scan", !.since = r.value]
        ELSE OnResolveError(tr, commits, r.err)

\* Lines 479-487 for the outcome r of identify_base_commit: the counter is
\* incremented before the call.
AfterResolve(tr0, r, commits) ==
    LET tr == [tr0 EXCEPT !.commit_counter = @ + 1, !.resolves = @ + 1,
                          !.res = Append(@, [ev |-> tr0.i,
                                             out |-> IF r.kind = "return" THEN "ok" ELSE r.err])]
    IN  IF r.kind = "return" THEN [tr EXCEPT !.pc = "scan", !.since = r.value]
        ELSE OnResolveError(tr, commits, r.err)

Resolve(t) ==
    /\ task[t].pc = "resolve"
    /\ \E env \in RunEnvs(Commits(t)[task[t].i].before) :
         task' = [task EXCEPT ![t] =
             AfterResolve(task[t],
                          identify_base_commit(env, Commits(t)[task[t].i].before),
                          Commits(t))]
    /\ UNCHANGED <<mainVars, findings_count, notified_orgs, file_lock, file,
                   tmpdirs, obs>>

\* A slip: an exception leaves the function past the finally block.
RaiseSkipsFinally(tr) == [tr EXCEPT !.pc = "raised", !.exc = TRUE, !.since = NotFound]

\* An exception raised inside the try block of scan_single_repo: the
\* finally block (line 505) runs and the exception goes on.
RaiseInTry(tr) == [tr EXCEPT !.pc = "cleanup", !.exc = TRUE, !.since = NotFound]

\* A slip: the next event taken up before the findings of the scan are
\* handed to the sink.
AfterScanDefersFindings(tr0, r, commits) ==
    LET tr == [tr0 EXCEPT !.scans = @ + 1, !.scanned = @ \cup {tr0.i}]
    IN  IF r.kind = "raise" THEN RaiseInTry(tr)
        ELSE ForLoop([tr EXCEPT !.found = @ + Len(r.findings)], commits, tr.i + 1)

\* Lines 489-492 for the outcome r of scan_with_trufflehog: an empty list
\* passes to the next event, findings are handled one by one.
AfterScan(tr0, r, commits) ==
    LET tr == [tr0 EXCEPT !.scans = @ + 1, !.scanned = @ \cup {tr0.i}]
    IN  IF r.kind = "raise" THEN RaiseInTry(tr)
        ELSE IF r.findings = <<>> THEN ForLoop(tr, commits, tr.i + 1)
        ELSE [tr EXCEPT !.pc = "write", !.findings = r.findings, !.k = 1,
                        !.since = NotFound, !.found = @ + Len(r.findings)]

\* Line 489: the scan of the event.
Scan(t) ==
    /\ task[t].pc = "scan"
    /\ \E outs \in RunOuts :
         task' = [task EXCEPT ![t] =
             AfterScan(task[t], scan_with_trufflehog(outs), Commits(t))]
    /\ UNCHANGED <<mainVars, findings_count, notified_orgs, file_lock, file,
                   tmpdirs, obs>>

(***************************************************************************)
(* FindingsSink: write_finding_to_file (lines 420-432), in two steps under *)
(* _file_lock: the file is opened for append and the separator is written  *)
(* when the count is positive; then the finding is dumped and the count    *)
(* incremented. except Exception prints the failure; the lock is released  *)
(* on every path.                                                          *)
(***************************************************************************)
\* A slip: the finding is labelled with the object id of the commit the
\* reference resolves to instead of the reference of the event.
CurrentFindingResolved(t) ==
    Enrich(task[t].findings[task[t].k], Url(t),
           FullId(CommitOf(Commits(t)[task[t].i].before)))

\* The finding at hand with the fields of lines 493-494.
CurrentFinding(t) ==
    Enrich(task[t].findings[task[t].k], Url(t), Commits(t)[task[t].i].before)

WritesSeparator == findings_count > 0

\* 1 when the finding at hand passes the checks of the notification gate.
Notifiable01(t) == IF NotifiableFinding(task[t].findings[task[t].k]) THEN 1 ELSE 0

WriteBegin(t) ==
    /\ task[t].pc = "write"
    /\ LockFree
    /\ file_lock' = t
    /\ file' = [exists |-> TRUE,
                text |-> IF WritesSeparator THEN Append(file.text, TokComma)
                         ELSE file.text]
    /\ obs' = [obs EXCEPT !.append_calls = @ + 1]
    /\ task' = [task EXCEPT ![t].pc = "dump"]
    /\ UNCHANGED <<mainVars, findings_count, notified_orgs, tmpdirs>>

\* open(findings_file, 'a') raises: nothing is written.
WriteOpenFail(t) ==
    /\ task[t].pc = "write"
    /\ LockFree
    /\ obs' = [obs EXCEPT !.append_calls = @ + 1, !.append_failed = @ + 1,
                          !.valid_findings = @ + Notifiable01(t)]
    /\ task' = [task EXCEPT ![t] = AfterWrite(task[t], Commits(t))]
    /\ UNCHANGED <<mainVars, findings_count, notified_orgs, file_lock, file, tmpdirs>>

WriteDumpOk(t) ==
    /\ task[t].pc = "dump"
    /\ file' = [file EXCEPT !.text = Append(@, Tok("elem", CurrentFinding(t)))]
    /\ findings_count' = findings_count + 1
    /\ file_lock' = 0
    /\ obs' = [obs EXCEPT !.appended = @ + 1, !.valid_findings = @ + Notifiable01(t)]
    /\ task' = [task EXCEPT ![t] = AfterWrite(task[t], Commits(t))]
    /\ UNCHANGED <<mainVars, notified_orgs, tmpdirs>>

\* A slip: the lock acquired by hand and not released when the dump raises.
WriteDumpFailKeepsLock(t) ==
    /\ task[t].pc = "dump"
    /\ file' = [file EXCEPT !.text = Append(@, Tok("partial", CurrentFinding(t)))]
    /\ obs' = [obs EXCEPT !.append_failed = @ + 1, !.valid_findings = @ + Notifiable01(t)]
    /\ task' = [task EXCEPT ![t] = AfterWrite(task[t], Commits(t))]
    /\ UNCHANGED <<mainVars, findings_count, notified_orgs, file_lock, tmpdirs>>

\* json.dump or the flush on close raises after part of the text went out:
\* the count is not incremented.
WriteDumpFail(t) ==
    /\ task[t].pc = "dump"
    /\ file' = [file EXCEPT !.text = Append(@, Tok("partial", CurrentFinding(t)))]
    /\ file_lock' = 0
    /\ obs' = [obs EXCEPT !.append_failed = @ + 1, !.valid_findings = @ + Notifiable01(t)]
    /\ task' = [task EXCEPT ![t] = AfterWrite(task[t], Commits(t))]
    /\ UNCHANGED <<mainVars, findings_count, notified_orgs, tmpdirs>>

(***************************************************************************)
(* NotificationGate: send_immediate_notification (lines 52-113) for a      *)
(* finding that passed its checks.                                         *)
(***************************************************************************)
\* A slip: the membership test left out.
NeverNotified(org) == FALSE

\* Line 69: org in _notified_orgs.
AlreadyNotified(org) == org \in notified_orgs

\* with _file_lock: the organization was notified already: return.
GateSeen(t) ==
    /\ task[t].pc = "gate"
    /\ LockFree
    /\ AlreadyNotified(InputOrg)
    /\ task' = [task EXCEPT ![t] = NextFinding(task[t], Commits(t))]
    /\ UNCHANGED <<mainVars, findings_count, notified_orgs, file_lock, file,
                   tmpdirs, obs>>

\* with _file_lock: the organization is not in the set.
GateNew(t) ==
    /\ task[t].pc = "gate"
    /\ LockFree
    /\ ~AlreadyNotified(InputOrg)
    /\ file_lock' = t
    /\ task' = [task EXCEPT ![t].pc = "gate_add"]
    /\ UNCHANGED <<mainVars, findings_count, notified_orgs, file, tmpdirs, obs>>

\* A slip: the organization is not recorded.
GateAddForgets(t) ==
    /\ task[t].pc = "gate_add"
    /\ file_lock' = 0
    /\ obs' = [obs EXCEPT !.gate_inserts = @ + 1]
    /\ task' = [task EXCEPT ![t].pc = "dispatch"]
    /\ UNCHANGED <<mainVars, findings_count, notified_orgs, file, tmpdirs>>

\* A slip: the rest of send_immediate_notification indented under the lock.
GateAddKeepsLock(t) ==
    /\ task[t].pc = "gate_add"
    /\ notified_orgs' = notified_orgs \cup {InputOrg}
    /\ obs' = [obs EXCEPT !.gate_inserts = @ + 1]
    /\ task' = [task EXCEPT ![t].pc = "dispatch"]
    /\ UNCHANGED <<mainVars, findings_count, file_lock, file, tmpdirs>>

\* _notified_orgs.add(org), and the lock is released.
GateAdd(t) ==
    /\ task[t].pc = "gate_add"
    /\ notified_orgs' = notified_orgs \cup {InputOrg}
    /\ file_lock' = 0
    /\ obs' = [obs EXCEPT !.gate_inserts = @ + 1]
    /\ task' = [task EXCEPT ![t].pc = "dispatch"]
    /\ UNCHANGED <<mainVars, findings_count, file, tmpdirs>>

\* Lines 73-113. no_channel: neither TELEGRAM_CHAT_ID nor NOTIFICATION_EMAIL
\* is set; tempfile_failed: writing the single-finding file raises;
\* no_script: the notification script does not exist; popen_failed: Popen
\* raises; dispatched: Popen started the notifier. Every exception is caught
\* and printed.
DispatchOutcomes == {"no_channel", "tempfile_failed", "no_script", "popen_failed",
                     "dispatched"}

Dispatch(t) ==
    /\ task[t].pc = "dispatch"
    /\ \E o \in DispatchOutcomes :
         obs' = [obs EXCEPT !.dispatch_outcome = o,
                            !.dispatches = IF o = "dispatched" THEN @ + 1 ELSE @]
    /\ task' = [task EXCEPT ![t] = NextFinding(task[t], Commits(t))]
    /\ UNCHANGED <<mainVars, findings_count, notified_orgs, file_lock, file, tmpdirs>>

(***************************************************************************)
(* The finally block of scan_single_repo (lines 505-534) and the end of    *)
(* the future: the tuple is returned, or the pending exception re-raised.  *)
(***************************************************************************)
Finish(tr) ==
    [tr EXCEPT !.pc = IF tr.exc THEN "raised" ELSE "returned",
               !.result = IF tr.exc \/ tr.clone_failed THEN <<0, 0>>
                          ELSE <<tr.commit_counter, tr.repo_findings>>,
               !.findings = <<>>, !.k = 0, !.since = NotFound]

\* One deletion attempt (lines 513-532) ends in one of four ways: rmtree
\* removed the directory, os.path.exists found it already gone, an OSError
\* was raised, or another exception was.
AttemptOutcomes == {"removed", "gone", "oserror", "other"}
MaxCleanupAttempts == 3
CleanupOutcomes == [1..MaxCleanupAttempts -> AttemptOutcomes]

\* A slip: one attempt and no retry.
CleanupLoopOneAttempt(outs, cleanup_attempts) ==
    [success |-> outs[cleanup_attempts + 1] \in {"removed", "gone"},
     attempts |-> cleanup_attempts + 1]

\* The while loop of the finally block (lines 511-532) entered with
\* cleanup_success False: outs[n] is how the n-th attempt would end.
RECURSIVE CleanupLoop(_, _)
CleanupLoop(outs, cleanup_attempts) ==
    IF cleanup_attempts >= MaxCleanupAttempts
    THEN [success |-> FALSE, attempts |-> cleanup_attempts]
    ELSE LET n == cleanup_attempts + 1
         IN  IF outs[n] \in {"removed", "gone"} THEN [success |-> TRUE, attempts |-> n]
             ELSE IF outs[n] = "oserror" THEN CleanupLoop(outs, n)
             ELSE [success |-> FALSE, attempts |-> n]

\* The ways the attempts can end that leave the directory removed.
RemovingOutcomes == {outs \in CleanupOutcomes : CleanupLoop(outs, 0).success}

\* The worker after the finally block, by the result of the loop.
AfterCleanup(tr, c) ==
    Finish([tr EXCEPT !.released = IF c.success THEN "removed" ELSE "failed"])

\* shutil.rmtree succeeded within the attempts.
CleanupRemoved(t) ==
    /\ task[t].pc = "cleanup"
    /\ RemovingOutcomes # {}
    /\ tmpdirs' = tmpdirs \ {t}
    /\ task' = [task EXCEPT ![t] = Finish([task[t] EXCEPT !.released = "removed"])]
    /\ UNCHANGED <<mainVars, findings_count, notified_orgs, file_lock, file, obs>>

\* Every attempt raised OSError, or one raised another exception: a warning
\* is printed and the directory stays.
CleanupGaveUp(t) ==
    /\ task[t].pc = "cleanup"
    /\ CleanupOutcomes \ RemovingOutcomes # {}
    /\ task' = [task EXCEPT ![t] = Finish([task[t] EXCEPT !.released = "failed"])]
    /\ UNCHANGED <<mainVars, findings_count, notified_orgs, file_lock, file,
                   tmpdirs, obs>>

Worker(t) ==
    \/ StartOk(t) \/ StartFail(t)
    \/ CloneOk(t) \/ CloneFail(t)
    \/ Resolve(t)
    \/ Scan(t)
    \/ WriteBegin(t) \/ WriteOpenFail(t) \/ WriteDumpOk(t) \/ WriteDumpFail(t)
    \/ GateSeen(t) \/ GateNew(t) \/ GateAdd(t)
    \/ Dispatch(t)
    \/ CleanupRemoved(t) \/ CleanupGaveUp(t)

MainThread ==
    \/ Gather
    \/ OpenOk \/ OpenFail
    \/ Submit
    \/ \E t \in 1..Len(task) : CollectReturned(t) \/ CollectRaised(t)
    \/ CloseOk \/ CloseFail
    \/ SummaryKeep \/ SummaryUnlink \/ SummaryUnlinkFail

Next == MainThread \/ \E t \in 1..Len(task) : Worker(t)

Spec == Init /\ [][Next]_vars

(***************************************************************************)
(* Specifications of single functions: the input is drawn by Init and one  *)
(* action applies the function; the process state stays idle.              *)
(***************************************************************************)
Idle ==
    /\ rows = <<>>
    /\ max_workers = 1
    /\ opc = "off"
    /\ repos = <<>>
    /\ task = <<>>
    /\ collected = {}
    /\ total_commits_scanned = 0
    /\ completed_repos = 0
    /\ findings_count = 0
    /\ notified_orgs = {}
    /\ file_lock = 0
    /\ file = NoFile
    /\ tmpdirs = {}
    /\ obs = ObsInit

idleVars == <<rows, max_workers, opc, repos, task, collected, total_commits_scanned,
              completed_repos, findings_count, notified_orgs, file_lock, file,
              tmpdirs, obs>>

\* The worker that makes the call: at the first of two events of its
\* repository, the candidate and one more.
ResolverCommits(before) == <<[before |-> before, date |-> 17],
                             [before |-> RefB, date |-> 17]>>
ResolverTask == [NewTask(1) EXCEPT !.pc = "resolve", !.i = 1, !.created = TRUE]

\* identify_base_commit on every candidate (commit 1 or 2, written with 7 to
\* 40 characters) and every environment of at most MaxAncestors ancestors.
InitResolver ==
    /\ Idle
    /\ \E c \in 1..2 : \E k \in MinShaLen..MaxShaLen : \E env \in Envs(c, MaxAncestors) :
         fx = [fn |-> "identify_base_commit", env |-> env, candidate |-> FullId(c),
               since_commit |-> AbbrevId(c, k), done |-> FALSE,
               out |-> ResolveReturn(NotFound, 0, FALSE),
               worker |-> ResolverTask, scan_done |-> FALSE,
               scan_since |-> NotFound,
               scan_out |-> [kind |-> "return", findings |-> <<>>, invocations |-> 0]]

ApplyResolver ==
    /\ fx.fn = "identify_base_commit"
    /\ ~fx.done
    /\ fx' = [fx EXCEPT !.done = TRUE,
                        !.out = identify_base_commit(fx.env, fx.since_commit),
                        !.worker = AfterResolve(fx.worker,
                                       identify_base_commit(fx.env, fx.since_commit),
                                       ResolverCommits(fx.since_commit))]
    /\ UNCHANGED idleVars

\* Line 489 in the worker that made the call: the scan is invoked with the
\* value identify_base_commit returned as since_commit.
ScanAfterResolve ==
    /\ fx.fn = "identify_base_commit"
    /\ fx.done
    /\ ~fx.scan_done
    /\ fx.worker.pc = "scan"
    /\ \E outs \in RunOuts :
         fx' = [fx EXCEPT !.scan_done = TRUE,
                          !.scan_since = fx.worker.since,
                          !.scan_out = scan_with_trufflehog(outs),
                          !.worker = AfterScan(fx.worker, scan_with_trufflehog(outs),
                                               ResolverCommits(fx.since_commit))]
    /\ UNCHANGED idleVars

SpecResolver == InitResolver /\ [][ApplyResolver \/ ScanAfterResolve]_vars

\* scan_with_trufflehog on every way its three attempts can end and every
\* stdout of at most MaxLines lines.
InvokerLines == {l \in Lines : l.Raw = "secret" \/ l.j # "object"}
InvokerStdouts == UNION {[1..n -> InvokerLines] : n \in 0..MaxLines}
AttemptKinds == [1..(DefaultMaxRetries + 1) -> {"ok", "timeout", "error"}]

\* The worker that makes the call: at the scan of the first of two events.
InvokerCommits == <<[before |-> RefA, date |-> 17], [before |-> RefB, date |-> 17]>>
InvokerTask == [NewTask(1) EXCEPT !.pc = "scan", !.i = 1, !.commit_counter = 1,
                                  !.resolves = 1, !.created = TRUE,
                                  !.res = <<[ev |-> 1, out |-> "ok"]>>]

InitInvoker ==
    /\ Idle
    /\ \E ks \in AttemptKinds : \E so \in InvokerStdouts :
         fx = [fn |-> "scan_with_trufflehog",
               outs |-> [a \in 1..(DefaultMaxRetries + 1) |->
                            [k |-> ks[a], stdout |-> IF ks[a] = "ok" THEN so ELSE <<>>]],
               stdout |-> so, done |-> FALSE,
               out |-> [kind |-> "return", findings |-> <<>>, invocations |-> 0],
               worker |-> InvokerTask]

ApplyInvoker ==
    /\ fx.fn = "scan_with_trufflehog"
    /\ ~fx.done
    /\ fx' = [fx EXCEPT !.done = TRUE, !.out = scan_with_trufflehog(fx.outs),
                        !.worker = AfterScan(fx.worker, scan_with_trufflehog(fx.outs),
                                             InvokerCommits)]
    /\ UNCHANGED idleVars

SpecInvoker == InitInvoker /\ [][ApplyInvoker]_vars

\* The finally block of a worker at the end of its try block, on every way
\* the three deletion attempts can end. The worker has counted two commits
\* and one finding, or none; an exception of the try block is pending, or
\* not; or the clone failed.
CleanupTasks ==
    {[NewTask(1) EXCEPT !.pc = "cleanup", !.created = TRUE, !.i = 3,
                        !.commit_counter = c, !.repo_findings = f, !.found = f,
                        !.exc = e] : c \in {0, 2}, f \in {0, 1}, e \in BOOLEAN}
    \cup {[NewTask(1) EXCEPT !.pc = "cleanup", !.created = TRUE, !.clone_failed = TRUE]}

InitCleanup ==
    /\ Idle
    /\ \E outs \in CleanupOutcomes : \E tr \in CleanupTasks :
         fx = [fn |-> "release_workspace", outs |-> outs, worker |-> tr,
               done |-> FALSE, out |-> [success |-> FALSE, attempts |-> 0],
               worker_after |-> tr]

ApplyCleanup ==
    /\ fx.fn = "release_workspace"
    /\ ~fx.done
    /\ fx' = [fx EXCEPT !.done = TRUE, !.out = CleanupLoop(fx.outs, 0),
                        !.worker_after = AfterCleanup(fx.worker, CleanupLoop(fx.outs, 0))]
    /\ UNCHANGED idleVars

SpecCleanup == InitCleanup /\ [][ApplyCleanup]_vars

\* send_immediate_notification called in turn, by one thread, on the
\* findings of a list: a finding that passes every check, and findings that
\* fail one of them. _notified_orgs is empty or holds the organization.
MaxGateCalls == 2
GateFindings ==
    {GoodLine}
    \cup {[GoodLine EXCEPT !.Verified = v] : v \in {"false", "absent"}}
    \cup {[GoodLine EXCEPT !.DetectorName = d] : d \in {"empty", "absent"}}
    \cup {[GoodLine EXCEPT !.Raw = "absent"]}
    \cup {[GoodLine EXCEPT !.SourceMetadata = m] : m \in {"nocommit", "empty", "absent"}}

gateIdleVars == <<rows, max_workers, opc, repos, task, collected, total_commits_scanned,
                  completed_repos, findings_count, file_lock, file, tmpdirs, obs>>

InitGate ==
    /\ rows = <<>>
    /\ max_workers = 1
    /\ opc = "off"
    /\ repos = <<>>
    /\ task = <<>>
    /\ collected = {}
    /\ total_commits_scanned = 0
    /\ completed_repos = 0
    /\ findings_count = 0
    /\ file_lock = 0
    /\ file = NoFile
    /\ tmpdirs = {}
    /\ obs = ObsInit
    /\ notified_orgs \in {{}, {InputOrg}}
    /\ \E fs \in [1..MaxGateCalls -> GateFindings] :
         fx = [fn |-> "send_immediate_notification", findings |-> fs, log |-> <<>>]

\* One call (lines 56-113): the checks, the test and the insert under the
\* lock, and the dispatch with outcome o.
GateCall ==
    /\ fx.fn = "send_immediate_notification"
    /\ Len(fx.log) < Len(fx.findings)
    /\ LET f == fx.findings[Len(fx.log) + 1]
           fires == NotifiableFinding(f) /\ ~AlreadyNotified(InputOrg)
       IN  \E o \in (IF fires THEN DispatchOutcomes ELSE {"none"}) :
             /\ notified_orgs' = IF fires THEN notified_orgs \cup {InputOrg}
                                  ELSE notified_orgs
             /\ fx' = [fx EXCEPT !.log = Append(@, [before |-> notified_orgs,
                                                     after |-> notified_orgs',
                                                     outcome |-> o])]
    /\ UNCHANGED gateIdleVars

SpecGate == InitGate /\ [][GateCall]_vars

\* scan_single_repo run by one thread on every list of at most MaxEvents
\* events, each with a reference _SHA_RE accepts or one it does not, for
\* every way the resolutions (routs) and the scans (souts) of the events can
\* end. A scan returns no finding or raises.
MaxEvents == 3
LoopRefs == {RefA, RefShort}
LoopCommits == UNION {[1..n -> [before : LoopRefs, date : {17}]] : n \in 0..MaxEvents}
ResolveOutcomes == {"ok", "not_our_ref", "other"}
ScanOutcomes == {"empty", "raise"}
ResolveResult(o) ==
    IF o = "ok" THEN ResolveReturn(FullId(3), 1, FALSE) ELSE ResolveRaise(o, 0)
ScanResult(o) ==
    [kind |-> IF o = "raise" THEN "raise" ELSE "return", findings |-> <<>>,
     invocations |-> 1]

InitLoop ==
    /\ Idle
    /\ \E commits \in LoopCommits :
       \E routs \in [1..MaxEvents -> ResolveOutcomes] :
       \E souts \in [1..MaxEvents -> ScanOutcomes] :
         fx = [fn |-> "scan_single_repo", commits |-> commits, routs |-> routs,
               souts |-> souts,
               worker |-> [NewTask(1) EXCEPT !.pc = "clone", !.created = TRUE]]

LoopWorkerAt(pc) == fx.fn = "scan_single_repo" /\ fx.worker.pc = pc

LoopCloneOk ==
    /\ LoopWorkerAt("clone")
    /\ fx' = [fx EXCEPT !.worker = ForLoop(fx.worker, fx.commits, 1)]
    /\ UNCHANGED idleVars

LoopCloneFail ==
    /\ LoopWorkerAt("clone")
    /\ fx' = [fx EXCEPT !.worker = [fx.worker EXCEPT !.pc = "cleanup",
                                                      !.clone_failed = TRUE]]
    /\ UNCHANGED idleVars

LoopResolve ==
    /\ LoopWorkerAt("resolve")
    /\ fx' = [fx EXCEPT !.worker = AfterResolve(fx.worker,
                                       ResolveResult(fx.routs[fx.worker.i]), fx.commits)]
    /\ UNCHANGED idleVars

LoopScan ==
    /\ LoopWorkerAt("scan")
    /\ fx' = [fx EXCEPT !.worker = AfterScan(fx.worker,
                                       ScanResult(fx.souts[fx.worker.i]), fx.commits)]
    /\ UNCHANGED idleVars

LoopCleanup ==
    /\ LoopWorkerAt("cleanup")
    /\ \E outs \in {<<"removed", "removed", "removed">>,
                      <<"oserror", "oserror", "oserror">>} :
         fx' = [fx EXCEPT !.worker = AfterCleanup(fx.worker, CleanupLoop(outs, 0))]
    /\ UNCHANGED idleVars

SpecLoop ==
    InitLoop /\ [][LoopCloneOk \/ LoopCloneFail \/ LoopResolve \/ LoopScan
                     \/ LoopCleanup]_vars

\* The budget and the command line on commit counts and sizes at and around
\* every threshold, the size measured or not.
CommitCounts == {0, SomeCommits, SomeCommits + 1, ManyCommits, ManyCommits + 1,
                 HugeCommits, HugeCommits + 1}
SizesMB == {0, MediumRepoMB, LargeRepoMB, HugeRepoMB}
Sizes == {[ok |-> FALSE, bytes |-> 0]}
         \cup {[ok |-> TRUE, bytes |-> mb * BytesPerMB + d] : mb \in SizesMB, d \in {0, 1}}

\* estimate_repo_scan_time and get_trufflehog_config on two inputs, to
\* compare their results.
InitTuning ==
    /\ Idle
    /\ \/ \E n1, n2 \in CommitCounts : \E s1, s2 \in Sizes :
            fx = [fn |-> "estimate_repo_scan_time", done |-> FALSE,
                  commit_count |-> <<n1, n2>>, size |-> <<s1, s2>>, out |-> <<0, 0>>]
       \/ \E n1, n2 \in CommitCounts : \E s1, s2 \in Sizes :
            fx = [fn |-> "get_trufflehog_config", done |-> FALSE,
                  commit_count |-> <<n1, n2>>, size |-> <<s1, s2>>, out |-> <<<<>>, <<>>>>]
       \/ \E n \in CommitCounts : \E s1, s2 \in Sizes : \E ks \in AttemptKinds :
            fx = [fn |-> "scan_budget", done |-> FALSE,
                  commit_count |-> n, est_size |-> s1, cfg_size |-> s2,
                  outs |-> [a \in 1..(DefaultMaxRetries + 1) |->
                               [k |-> ks[a], stdout |-> <<>>]],
                  out |-> <<>>]

ApplyEstimate ==
    /\ fx.fn = "estimate_repo_scan_time"
    /\ ~fx.done
    /\ fx' = [fx EXCEPT !.done = TRUE,
                        !.out = [j \in 1..2 |->
                                   estimate_repo_scan_time(fx.size[j], fx.commit_count[j])]]
    /\ UNCHANGED idleVars

ApplyConfig ==
    /\ fx.fn = "get_trufflehog_config"
    /\ ~fx.done
    /\ fx' = [fx EXCEPT !.done = TRUE,
                        !.out = [j \in 1..2 |->
                                   get_trufflehog_config(MeasuredOrZero(fx.size[j]),
                                                         fx.commit_count[j])]]
    /\ UNCHANGED idleVars

ApplyScanBudget ==
    /\ fx.fn = "scan_budget"
    /\ ~fx.done
    /\ fx' = [fx EXCEPT !.done = TRUE,
                        !.out = InvocationLog(fx.outs, fx.est_size, fx.cfg_size,
                                              fx.commit_count)]
    /\ UNCHANGED idleVars

SpecTuning == InitTuning /\ [][ApplyEstimate \/ ApplyConfig \/ ApplyScanBudget]_vars

(***************************************************************************)
(* Properties.                                                             *)
(***************************************************************************)
AllTasks == 1..Len(task)
RunClosing == opc \in {"close", "summary", "done"}
IsClose(tok) == tok.k = "close"

\* The elements of the file that task t wrote.
FindingsFrom(t) == {i \in 1..Len(file.text) :
                      file.text[i].k = "elem" /\ file.text[i].f.repository_url = Url(t)}

\* The commit counters of the collected tasks among 1..n that returned.
RECURSIVE SumReturned(_)
SumReturned(n) ==
    IF n = 0 THEN 0
    ELSE SumReturned(n - 1)
         + (IF n \in collected /\ task[n].pc = "returned" THEN task[n].commit_counter ELSE 0)

\* The repository URLs of the input rows, computed from the rows alone.
RowUrls == {RepoUrl(Strip(rows[i]["repo_org"]), Strip(rows[i]["repo_name"])) :
               i \in 1..Len(rows)}

\* C1: once the run has written the closing delimiter, and no write to the
\* file failed, the file parses as one JSON array that holds exactly one
\* element per call of write_finding_to_file, whatever the interleaving of
\* the calling threads.
C1_ClosedFileHoldsEveryAppend ==
    (opc \in {"summary", "done"} /\ file.exists /\ ~obs.close_failed
        /\ obs.append_failed = 0)
    => /\ ParsesAsArray(file.text)
       /\ Len(Elements(file.text)) = obs.append_calls
       /\ Len(Commas(file.text)) = IF obs.append_calls = 0 THEN 0 ELSE obs.append_calls - 1

\* Two threads of a pool of two appended one finding each, and the closed
\* file holds both.
C1_Witness ==
    /\ opc = "done"
    /\ max_workers = 2
    /\ Len(task) = 2
    /\ obs.append_calls = 2
    /\ file.exists
    /\ ParsesAsArray(file.text)
    /\ FindingsFrom(1) # {}
    /\ FindingsFrom(2) # {}

\* C2 as stated: at the end of the scan the notifier was started exactly once
\* when the organization has findings and not at all when it has none.
C2_ExactlyOnceWhenFindings ==
    opc = "done" =>
        /\ obs.append_calls > 0 => obs.dispatches = 1
        /\ obs.append_calls = 0 => obs.dispatches = 0

\* C2 as amended: the organization is inserted into the notified set at most
\* once, and exactly once by the end of a scan in which a finding passed the
\* checks of the gate; the notifier is started at most once, only by the
\* thread that made the insertion, never for an organization without a
\* finding that passes the checks, and exactly once when that one attempt is
\* neither skipped (no channel configured, no script) nor fails.
C2_AtMostOnceAndOnceWhenDelivered ==
    /\ obs.gate_inserts <= 1
    /\ obs.dispatches <= obs.gate_inserts
    /\ obs.valid_findings = 0 => obs.gate_inserts = 0
    /\ obs.append_calls = 0 => obs.dispatches = 0
    /\ opc = "done" =>
          /\ obs.valid_findings > 0 => obs.gate_inserts = 1
          /\ obs.dispatches = 1 <=> obs.dispatch_outcome = "dispatched"

\* Two threads each had a finding that passes the checks, and the notifier
\* was started once.
C2_Witness ==
    /\ opc = "done"
    /\ max_workers = 2
    /\ Len(task) = 2
    /\ obs.valid_findings = 2
    /\ task[1].repo_findings = 1
    /\ task[2].repo_findings = 1
    /\ obs.dispatches = 1

\* C3: when every command succeeds and the candidate is itself contained in
\* a branch, the call returns, its value is not the candidate commit, and it
\* is the candidate's parent when the parent can be looked up.
C3_LiveCandidateResolvesToParent ==
    (fx.fn = "identify_base_commit" /\ fx.done
        /\ fx.env.fetch = "ok" /\ fx.env.revlist = "ok"
        /\ fx.env.contains_fail_at # 1
        /\ fx.candidate \in fx.env.live)
    => /\ fx.out.kind = "return"
       /\ fx.out.value # fx.candidate
       /\ fx.env.parent # 0 => fx.out.value = fx.env.anc[fx.env.parent]

\* C4: when the fetch, the rev-list and every containment check succeed and
\* no commit of the ancestor list is contained in a branch, the call returns
\* the empty result; and when the lookup of the candidate's parent was made
\* and failed, it returns the empty result too. Neither case raises.
C4_NotFoundWithoutRaising ==
    (fx.fn = "identify_base_commit" /\ fx.done) =>
        /\ (fx.env.fetch = "ok" /\ fx.env.revlist = "ok"
               /\ fx.env.contains_fail_at = 0
               /\ fx.env.live \cap Range(fx.env.anc) = {})
           => (fx.out.kind = "return" /\ fx.out.value = NotFound
                  /\ fx.out.checks = Len(fx.env.anc))
        /\ (fx.out.parent_lookup /\ fx.env.parent = 0)
           => (fx.out.kind = "return" /\ fx.out.value = NotFound)

\* A candidate with two ancestors, none of the three contained in a branch:
\* every one was checked and the result is empty.
C4_Witness ==
    /\ fx.fn = "identify_base_commit"
    /\ fx.done
    /\ fx.env.fetch = "ok"
    /\ fx.env.revlist = "ok"
    /\ fx.env.contains_fail_at = 0
    /\ Len(fx.env.anc) = 3
    /\ fx.env.live = {}
    /\ fx.out.kind = "return"
    /\ fx.out.value = NotFound

\* C5: every finding scan_with_trufflehog returns is a JSON object of the
\* output whose Verified is true, whose DetectorName is not empty and whose
\* SourceMetadata is present and not empty.
C5_OnlyVerifiedReturned ==
    (fx.fn = "scan_with_trufflehog" /\ fx.done) =>
        \A i \in 1..Len(fx.out.findings) :
            /\ fx.out.findings[i].j = "object"
            /\ fx.out.findings[i].Verified = "true"
            /\ fx.out.findings[i].DetectorName = "name"
            /\ fx.out.findings[i].SourceMetadata \notin {"empty", "absent"}
            /\ \E n \in 1..Len(fx.stdout) : fx.stdout[n] = fx.out.findings[i]

\* The second attempt, after a timeout, printed a verified finding and one
\* that differs from it only in Verified being false: one finding is returned.
C5_Witness ==
    /\ fx.fn = "scan_with_trufflehog"
    /\ fx.done
    /\ fx.outs[1].k = "timeout"
    /\ fx.outs[2].k = "ok"
    /\ fx.stdout = <<UnverifiedLine, GoodLine>>
    /\ fx.out.findings = <<GoodLine>>

\* C6: at the end of a run that opened the file and appended no finding to
\* it, the file does not exist (the unlink not having failed).
C6_NoFileWhenNothingAppended ==
    (opc = "done" /\ obs.opened /\ obs.appended = 0 /\ ~obs.unlink_failed)
    => ~file.exists

\* Two repositories were scanned, nothing was found, and no file is left.
C6_Witness ==
    /\ opc = "done"
    /\ Len(task) = 2
    /\ \A t \in AllTasks : task[t].pc = "returned" /\ task[t].scans = 1
    /\ obs.append_calls = 0
    /\ ~file.exists

\* C7: a task whose clone failed resolves and scans nothing, does not raise
\* and returns (0, 0); the main thread leaves the pool only when every
\* submitted task has finished; and while the run has not ended some thread
\* can take a step.
C7_CloneFailureIsContained ==
    /\ \A t \in AllTasks :
          task[t].clone_failed =>
              /\ task[t].resolves = 0
              /\ task[t].scans = 0
              /\ task[t].pc \in {"cleanup", "returned"}
              /\ task[t].pc = "returned" => task[t].result = <<0, 0>>
    /\ RunClosing => Len(task) = Len(repos) /\ \A t \in AllTasks : Finished(t)
    /\ ((\E t \in AllTasks : task[t].clone_failed) /\ opc # "done") => ENABLED Next

\* The clone of the first repository failed; the second was scanned and
\* returned its counters.
C7_Witness ==
    /\ opc = "done"
    /\ Len(task) = 2
    /\ task[1].clone_failed
    /\ task[1].result = <<0, 0>>
    /\ task[2].pc = "returned"
    /\ task[2].scans = 1
    /\ task[2].result[1] = 1
    /\ total_commits_scanned = 1

\* C8 as stated, for the findings: a task that raised has no element in the
\* result file.
C8_RaisedTaskContributesNothing ==
    \A t \in AllTasks : task[t].pc = "raised" => FindingsFrom(t) = {}

\* C8 as amended: every task is run to its end and collected before the
\* file is closed; the total of commits scanned is the sum of the counters
\* of the tasks that returned, so a task that raised adds nothing to it; the
\* count of findings is the number of elements in the file, those of a task
\* that raised later included.
C8_RaisedTaskAddsNoCommits ==
    /\ total_commits_scanned = SumReturned(Len(task))
    /\ completed_repos = Cardinality({t \in collected : task[t].pc = "returned"})
    /\ RunClosing =>
          /\ collected = 1..Len(repos)
          /\ \A t \in AllTasks : Finished(t)
    /\ (opc \in {"close", "summary"} /\ obs.append_failed = 0)
          => findings_count = Len(Elements(file.text))

\* One task raised after it had counted a commit, its sibling returned, and
\* the total holds the sibling's commit only.
C8_Witness ==
    /\ opc = "done"
    /\ Len(task) = 2
    /\ task[1].pc = "raised"
    /\ task[1].commit_counter = 1
    /\ task[2].pc = "returned"
    /\ task[2].commit_counter = 1
    /\ total_commits_scanned = 1

\* C9: in a run that opened the file the closing delimiter is written once:
\* never twice, not before every task was collected, and by the end of the
\* run once, whether tasks failed or raised.
C9_ClosedExactlyOnce ==
    /\ obs.close_attempts <= 1
    /\ obs.close_attempts = 1 => (obs.opened /\ collected = 1..Len(repos))
    /\ (opc = "done" /\ obs.opened) => obs.close_attempts = 1
    /\ (obs.opened /\ file.exists) =>
          Len(SelectSeq(file.text, IsClose))
             = IF obs.close_attempts = 1 /\ ~obs.close_failed THEN 1 ELSE 0
    /\ (obs.close_attempts = 1 /\ ~obs.close_failed /\ file.exists)
          => file.text[Len(file.text)] = TokClose

\* One task raised, the clone of the other failed, and the file was closed.
C9_Witness ==
    /\ opc = "done"
    /\ Len(task) = 2
    /\ \E t \in AllTasks : task[t].pc = "raised"
    /\ \E t \in AllTasks : task[t].clone_failed
    /\ obs.close_attempts = 1
    /\ ~obs.close_failed

\* C10: once every task is submitted there is one task per distinct URL of
\* the input rows, and no URL has two tasks.
C10_OneTaskPerDistinctUrl ==
    /\ Len(task) <= Cardinality(RowUrls)
    /\ \A t, u \in AllTasks : Url(t) = Url(u) => t = u
    /\ opc \in {"collect", "close", "summary", "done"} =>
          /\ Len(task) = Cardinality(RowUrls)
          /\ {Url(t) : t \in AllTasks} = RowUrls

\* Two events of one repository, with different references, gave one task.
C10_Witness ==
    /\ opc = "done"
    /\ Len(rows) = 2
    /\ rows[1]["before"] # rows[2]["before"]
    /\ Len(task) = 1
    /\ Len(repos[1].commits) = 2

(***************************************************************************)
(* Input validation.                                                       *)
(***************************************************************************)
HasFields(row) == EXPECTED_FIELDS \subseteq DOMAIN row

\* A record is malformed in the words of the contract, its fields read as
\* they stand in the input.
MalformedAsGiven(row) ==
    \/ ~HasFields(row)
    \/ /\ HasFields(row)
       /\ \/ row["repo_org"] = <<>>
          \/ row["repo_name"] = <<>>
          \/ ~SHA_RE_fullmatch(row["before"])
          \/ ~IntParses(row["timestamp"])

\* The same with the blanks around organization, name and reference
\* removed first, and with the organization compared to the scanned one.
MalformedStripped(row) ==
    \/ ~HasFields(row)
    \/ /\ HasFields(row)
       /\ \/ Strip(row["repo_org"]) = <<>>
          \/ Strip(row["repo_org"]) # InputOrg
          \/ Strip(row["repo_name"]) = <<>>
          \/ ~SHA_RE_fullmatch(Strip(row["before"]))
          \/ ~IntParses(row["timestamp"])

\* Nothing of the scan has happened: no future, no workspace of a task, no
\* attempt to open the result file.
NothingStarted ==
    /\ opc = "terminated"
    /\ task = <<>>
    /\ tmpdirs \subseteq {0}
    /\ ~obs.opened
    /\ ~obs.open_failed
    /\ obs.append_calls = 0

\* The event a valid record stands for, and its repository.
EventOfRow(row) == [before |-> Strip(row["before"]), date |-> IntValue(row["timestamp"])]
UrlOfRow(row) == RepoUrl(Strip(row["repo_org"]), Strip(row["repo_name"]))

\* The events of the rows with the given URL among rows[1..n], in input order.
RECURSIVE EventsFor(_, _)
EventsFor(url, n) ==
    IF n = 0 THEN <<>>
    ELSE IF UrlOfRow(rows[n]) = url
         THEN Append(EventsFor(url, n - 1), EventOfRow(rows[n]))
         ELSE EventsFor(url, n - 1)
FirstRowOf(url) == CHOOSE i \in 1..Len(rows) :
                      UrlOfRow(rows[i]) = url /\ \A j \in 1..(i - 1) : UrlOfRow(rows[j]) # url

MappingKeepsInputOrder ==
    /\ {repos[e].url : e \in 1..Len(repos)} = {UrlOfRow(rows[i]) : i \in 1..Len(rows)}
    /\ \A e \in 1..Len(repos) : repos[e].commits = EventsFor(repos[e].url, Len(rows))
    /\ \A e, g \in 1..Len(repos) :
          e < g => FirstRowOf(repos[e].url) < FirstRowOf(repos[g].url)

\* C11 as stated: once the input is gathered, a batch with a record that
\* lacks a field, has an empty organization or name, a `before` that does
\* not match the pattern or a timestamp that is no integer is rejected with
\* nothing started, and a batch of well-formed records is kept in order.
C11_MalformedAsGivenRejected ==
    opc # "gather" =>
        /\ (\E i \in 1..Len(rows) : MalformedAsGiven(rows[i])) => NothingStarted
        /\ (rows # <<>> /\ \A i \in 1..Len(rows) : ~MalformedAsGiven(rows[i]))
           => (opc # "terminated" /\ MappingKeepsInputOrder)

\* C11 as amended: the checks are made on the fields with surrounding blanks
\* removed, and the organization must be the scanned one. A batch with a
\* record that fails them is rejected with nothing started; a batch whose
\* records all pass is kept, every record in the mapping in input order.
C11_InvalidBatchRejected ==
    opc # "gather" =>
        /\ (\E i \in 1..Len(rows) : MalformedStripped(rows[i])) => NothingStarted
        /\ (rows # <<>> /\ \A i \in 1..Len(rows) : ~MalformedStripped(rows[i]))
           => (opc # "terminated" /\ MappingKeepsInputOrder)

\* A valid record followed by one without a timestamp: the batch is
\* rejected and nothing was started.
C11_Witness ==
    /\ Len(rows) = 2
    /\ ~MalformedStripped(rows[1])
    /\ ~HasFields(rows[2])
    /\ NothingStarted

(***************************************************************************)
(* The enrichment of persisted findings.                                   *)
(***************************************************************************)
\* The element names a repository of the mapping and the reference of one of
\* that repository's events.
NamesAnEvent(f) ==
    \E e \in 1..Len(repos) :
        /\ f.repository_url = repos[e].url
        /\ \E i \in 1..Len(repos[e].commits) : f.scanned_commit = repos[e].commits[i].before

\* Every element the step adds to the file was written by the thread that
\* holds the lock, and names that thread's repository and the reference of
\* the event whose findings it is writing.
AddedElementsAreTheWriters ==
    \A n \in (Len(file.text) + 1)..Len(file'.text) :
        file'.text[n].k = "elem" =>
            \E t \in AllTasks :
                /\ task[t].pc = "dump"
                /\ file_lock = t
                /\ file'.text[n].f.repository_url = Url(t)
                /\ file'.text[n].f.scanned_commit = Commits(t)[task[t].i].before

OneRepoOneEventOneFinding ==
    /\ opc \in {"close", "summary", "done"}
    /\ Len(task) = 1
    /\ Len(Commits(1)) = 1
    /\ task[1].pc = "returned"
    /\ task[1].repo_findings = 1

\* C12: every finding in the result file of the run carries the URL of the
\* repository whose worker wrote it and the `before` reference of the event
\* whose scan returned it, as the input gave it; and with one repository,
\* one event and one finding returned by the tool (its append not having
\* failed) the file holds exactly one element.
C12_FindingCarriesUrlAndBefore ==
    /\ [](obs.opened =>
            \A n \in 1..Len(file.text) :
                file.text[n].k = "elem" => NamesAnEvent(file.text[n].f))
    /\ [][obs.opened => AddedElementsAreTheWriters]_vars
    /\ []((OneRepoOneEventOneFinding /\ obs.append_failed = 0) =>
            /\ file.exists
            /\ Len(Elements(file.text)) = 1
            /\ Elements(file.text)[1].f.repository_url = Url(1)
            /\ Elements(file.text)[1].f.scanned_commit = Commits(1)[1].before)

\* One repository with one event whose reference is abbreviated: the file
\* holds one element, labelled with the reference of the seven characters.
C12_Witness ==
    /\ opc = "done"
    /\ OneRepoOneEventOneFinding
    /\ Commits(1)[1].before = RefA
    /\ file.exists
    /\ Len(Elements(file.text)) = 1
    /\ Elements(file.text)[1].f.scanned_commit = RefA
    /\ Elements(file.text)[1].f.repository_url = RepoUrl(InputOrg, <<"r">>)

(***************************************************************************)
(* The event loop of one worker.                                           *)
(***************************************************************************)
\* The events the input rows give the repository of task t.
RowsOf(t) == EventsFor(Url(t), Len(rows))
TwinEvents(t) == Len(RowsOf(t)) = 2 /\ RowsOf(t)[1].before = RowsOf(t)[2].before
AllResolved(t) == \A n \in 1..Len(task[t].res) : task[t].res[n].out = "ok"

\* C13: a worker whose repository has two events with the same `before`,
\* and whose resolutions all succeed, returns having resolved twice, scanned
\* twice and counted two commits; it reports every finding of either scan,
\* and (no append having failed) the file holds one element for each.
C13_TwinEventsScannedTwice ==
    \A t \in AllTasks :
        (TwinEvents(t) /\ task[t].pc = "returned" /\ ~task[t].clone_failed
            /\ AllResolved(t))
        => /\ task[t].resolves = 2
           /\ task[t].scans = 2
           /\ task[t].scanned = {1, 2}
           /\ task[t].commit_counter = 2
           /\ task[t].result = <<2, task[t].found>>
           /\ obs.append_failed = 0 => Cardinality(FindingsFrom(t)) = task[t].found

\* Both scans of the twin events returned the same finding and the file
\* holds it twice.
C13_Witness ==
    /\ opc = "done"
    /\ Len(task) = 1
    /\ TwinEvents(1)
    /\ task[1].scans = 2
    /\ task[1].found = 2
    /\ Len(Elements(file.text)) = 2
    /\ Elements(file.text)[1] = Elements(file.text)[2]

\* The events of task t whose resolution ended with the given outcome.
EventsResolvedAs(t, out) ==
    {task[t].res[n].ev : n \in {m \in 1..Len(task[t].res) : task[t].res[m].out = out}}
EventsResolved(t) == {task[t].res[n].ev : n \in 1..Len(task[t].res)}
LastResolved(t) == task[t].res[Len(task[t].res)]

\* C14: an event whose fetch failed with "not our ref" is never scanned;
\* right after the skip the worker is at the resolution of the next event
\* (or, after the last event, at the end of the loop, with no exception);
\* and a worker that returns without another kind of resolution error has
\* resolved every event and scanned every event that resolved.
C14_NotOurRefSkipsOneEvent ==
    \A t \in AllTasks :
        /\ EventsResolvedAs(t, "not_our_ref") \cap task[t].scanned = {}
        /\ (task[t].res # <<>> /\ LastResolved(t).out = "not_our_ref") =>
              /\ ~task[t].exc
              /\ IF LastResolved(t).ev < Len(Commits(t))
                 THEN task[t].pc = "resolve" /\ task[t].i = LastResolved(t).ev + 1
                 ELSE task[t].pc \in {"cleanup", "returned"}
        /\ (task[t].pc = "returned" /\ ~task[t].clone_failed
               /\ EventsResolvedAs(t, "not_our_ref") # {}
               /\ EventsResolvedAs(t, "other") = {})
           => /\ EventsResolved(t) = 1..Len(Commits(t))
              /\ task[t].scanned = EventsResolvedAs(t, "ok")

\* The first event of a repository was skipped and the second was resolved
\* and scanned.
C14_Witness ==
    /\ opc = "done"
    /\ Len(task) = 1
    /\ Len(Commits(1)) = 2
    /\ task[1].pc = "returned"
    /\ task[1].res = <<[ev |-> 1, out |-> "not_our_ref"], [ev |-> 2, out |-> "ok"]>>
    /\ task[1].scanned = {2}

\* C15: after a resolution that failed with another error the worker
\* resolves and scans nothing more: that resolution is its last, no event
\* from it on is scanned, no exception is pending, the workspace is
\* released in the finally block and the tuple returned holds the counters
\* as they stood; the run leaves the pool only when every task has
\* finished, and while it has not ended some thread can take a step.
C15_OtherErrorEndsTheRepository ==
    /\ \A t \in AllTasks :
          EventsResolvedAs(t, "other") # {} =>
              /\ LastResolved(t).out = "other"
              /\ Cardinality(EventsResolvedAs(t, "other")) = 1
              /\ \A j \in task[t].scanned : j < LastResolved(t).ev
              /\ task[t].pc \in {"cleanup", "returned"}
              /\ ~task[t].exc
              /\ task[t].pc = "returned" =>
                    /\ task[t].released # "no"
                    /\ task[t].commit_counter = Len(task[t].res)
                    /\ task[t].repo_findings = task[t].found
                    /\ task[t].result = <<task[t].commit_counter, task[t].repo_findings>>
    /\ RunClosing => Len(task) = Len(repos) /\ \A t \in AllTasks : Finished(t)
    /\ ((\E t \in AllTasks : EventsResolvedAs(t, "other") # {})
           /\ opc \notin {"done", "terminated", "open_failed"}) => ENABLED Next

\* The resolution of the first of two events failed: the second was not
\* resolved, the workspace was removed and the worker returned (1, 0).
C15_Witness ==
    /\ opc = "done"
    /\ Len(task) = 1
    /\ Len(Commits(1)) = 2
    /\ task[1].pc = "returned"
    /\ task[1].res = <<[ev |-> 1, out |-> "other"]>>
    /\ task[1].scanned = {}
    /\ task[1].released = "removed"
    /\ task[1].result = <<1, 0>>
    /\ total_commits_scanned = 1

(***************************************************************************)
(* The retry policy of the scan invoker.                                   *)
(***************************************************************************)
\* The attempts before attempt n all ended with a timeout.
TimeoutsBefore(outs, n) == \A a \in 1..(n - 1) : outs[a].k = "timeout"

\* C16: one call invokes the tool at most three times; an attempt after the
\* first is made only when every earlier attempt timed out, and the call
\* stops at the first attempt that did not time out; when the last attempt
\* made failed (a failure that is no timeout, or the third timeout) the
\* call returns the empty list, raises nothing, and the worker that called
\* passes to the resolution of its next event.
C16_RetryOnTimeoutOnly ==
    (fx.fn = "scan_with_trufflehog" /\ fx.done) =>
        /\ fx.out.invocations \in 1..3
        /\ TimeoutsBefore(fx.outs, fx.out.invocations)
        /\ fx.out.invocations < 3 => fx.outs[fx.out.invocations].k # "timeout"
        /\ fx.outs[fx.out.invocations].k # "ok" =>
              /\ fx.out.kind = "return"
              /\ fx.out.findings = <<>>
              /\ fx.worker.pc = "resolve"
              /\ fx.worker.i = 2
              /\ ~fx.worker.exc

\* Two timeouts and then a failure that is no timeout: three invocations,
\* no findings, and the worker is at its second event.
C16_Witness ==
    /\ fx.fn = "scan_with_trufflehog"
    /\ fx.done
    /\ fx.outs[1].k = "timeout"
    /\ fx.outs[2].k = "timeout"
    /\ fx.outs[3].k = "error"
    /\ fx.out.invocations = 3
    /\ fx.out.findings = <<>>
    /\ fx.worker.pc = "resolve"

(***************************************************************************)
(* The workspace of a worker.                                              *)
(***************************************************************************)
\* C17: a worker that created its workspace and has returned or raised has
\* attempted the release; a workspace that is still there when its worker
\* has finished is one whose removal failed; a worker whose mkdtemp failed
\* has no workspace.
C17_ReleaseAttemptedOnEveryExit ==
    \A t \in AllTasks :
        /\ (task[t].created /\ Finished(t)) => task[t].released # "no"
        /\ (t \in tmpdirs /\ Finished(t)) => task[t].released = "failed"
        /\ (t \in tmpdirs /\ ~Finished(t)) => task[t].released = "no"
        /\ ~task[t].created => (t \notin tmpdirs /\ task[t].released = "no")
        /\ task[t].released = "removed" => t \notin tmpdirs

\* The four ways out of the try block, each with the workspace removed:
\* a failed clone, the end of the loop, a break, an exception.
ExitPath(t) ==
    IF task[t].clone_failed THEN "clone_failure"
    ELSE IF task[t].pc = "raised" THEN "exception"
    ELSE IF EventsResolvedAs(t, "other") # {} THEN "break"
    ELSE "loop_end"

\* A worker left on an exception raised by the scan and its sibling on a
\* failed clone; the workspaces of both were removed before they finished.
C17_Witness ==
    /\ Len(task) = 2
    /\ opc = "collect"
    /\ \A t \in AllTasks : Finished(t) /\ task[t].created /\ task[t].released = "removed"
    /\ ExitPath(1) = "exception"
    /\ ExitPath(2) = "clone_failure"
    /\ tmpdirs = {}

(***************************************************************************)
(* The end of the run.                                                     *)
(***************************************************************************)
\* scan_commits has returned to run_scanner.
ScanCommitsReturned == opc \in {"done", "open_failed"}

\* The threads are scheduled and every external command ends, so a step
\* that can be taken is taken.
SpecLive == Spec /\ WF_vars(Next)

\* Every run comes to an end: the batch is rejected or scan_commits returns.
RunEnds == <>(opc = "terminated" \/ ScanCommitsReturned)

\* C18: when scan_commits has returned, every repository of the mapping was
\* dispatched, every dispatched task has completed and was collected, and
\* the summary was printed.
C18_ReturnsWithSummary ==
    ScanCommitsReturned =>
        /\ obs.summary_printed
        /\ Len(task) = Len(repos)
        /\ \A t \in AllTasks : Finished(t)
        /\ collected = AllTasks

\* A failure of the sink or of the dispatch has happened in the run.
SinkOrDispatchFailed ==
    \/ obs.open_failed
    \/ obs.append_failed > 0
    \/ obs.dispatch_outcome \in {"tempfile_failed", "popen_failed"}

\* C19: a run in which creating the result file, an append or the dispatch
\* failed goes on all the same: while it has not ended some thread can take
\* a step, and when scan_commits returns every repository of the mapping
\* was dispatched, has finished and was collected.
C19_SinkFailureDoesNotInterrupt ==
    SinkOrDispatchFailed =>
        /\ ~ScanCommitsReturned => ENABLED Next
        /\ ScanCommitsReturned =>
              /\ Len(task) = Len(repos)
              /\ \A t \in AllTasks : Finished(t)
              /\ collected = AllTasks

(***************************************************************************)
(* The filter of the scan invoker.                                         *)
(***************************************************************************)
\* A line that is a JSON object marked verified, with a detector name and
\* with source metadata.
KeptLine(l) ==
    /\ l.j = "object"
    /\ l.Verified = "true"
    /\ l.DetectorName = "name"
    /\ l.SourceMetadata \in {"git", "nocommit"}

\* C20: a call whose last attempt ran the tool to its end raises nothing
\* and returns the lines of the output that are verified objects with
\* detector and metadata, in their order; every other line is dropped.
C20_OtherLinesDiscardedSilently ==
    (fx.fn = "scan_with_trufflehog" /\ fx.done
        /\ fx.outs[fx.out.invocations].k = "ok")
    => /\ fx.out.kind = "return"
       /\ fx.out.findings = SelectSeq(fx.stdout, KeptLine)

(***************************************************************************)
(* The timeout budget and the tool's concurrency.                          *)
(***************************************************************************)
\* C21: the attempts one call makes run with once, twice and three times
\* the base estimate, in that order: the budgets increase strictly and none
\* exceeds three times the cap of the estimate.
C21_BudgetIsAttemptTimesEstimate ==
    (fx.fn = "scan_budget" /\ fx.done) =>
        /\ Len(fx.out) \in 1..3
        /\ \A a \in 1..Len(fx.out) :
              /\ fx.out[a].timeout_seconds
                    = a * estimate_repo_scan_time(fx.est_size, fx.commit_count)
              /\ fx.out[a].timeout_seconds <= 3 * 3600
              /\ a > 1 => fx.out[a].timeout_seconds > fx.out[a - 1].timeout_seconds

\* Three attempts on a repository whose estimate is the cap: 3600, 7200 and
\* 10800 seconds.
C21_Witness ==
    /\ fx.fn = "scan_budget"
    /\ fx.done
    /\ Len(fx.out) = 3
    /\ fx.out[1].timeout_seconds = 3600
    /\ fx.out[2].timeout_seconds = 7200
    /\ fx.out[3].timeout_seconds = 10800

\* The factors of the contract, in halves: 4 for 2, 3 for 1.5, 2 for 1.
CommitFactorHalves(n) == IF n > 100 THEN 4 ELSE IF n > 50 THEN 3 ELSE 2
SizeFactorHalves(size) ==
    IF ~size.ok THEN 2
    ELSE IF size.bytes > 500 * 1048576 THEN 4
    ELSE IF size.bytes > 100 * 1048576 THEN 3
    ELSE 2
SizeAtMost(s1, s2) == s1 = s2 \/ (s1.ok /\ s2.ok /\ s1.bytes <= s2.bytes)

\* C22: the estimate is 900 seconds times the commit factor times the size
\* factor, the boundary values taking the lower factor; it is never more
\* than 3600; and it does not decrease when the commit count or the
\* measured size grows.
C22_EstimateIsProductOfFactors ==
    (fx.fn = "estimate_repo_scan_time" /\ fx.done) =>
        /\ \A j \in 1..2 :
              /\ 4 * fx.out[j]
                    = 900 * CommitFactorHalves(fx.commit_count[j]) * SizeFactorHalves(fx.size[j])
              /\ fx.out[j] <= 3600
        /\ (fx.commit_count[1] <= fx.commit_count[2] /\ SizeAtMost(fx.size[1], fx.size[2]))
           => fx.out[1] <= fx.out[2]

\* 100 events and exactly 500 MB take the factor 1.5 twice, 2025 seconds;
\* one event and one byte more take the factor 2 twice, the cap.
C22_Witness ==
    /\ fx.fn = "estimate_repo_scan_time"
    /\ fx.done
    /\ fx.commit_count = <<100, 101>>
    /\ fx.size = <<[ok |-> TRUE, bytes |-> 500 * 1048576],
                   [ok |-> TRUE, bytes |-> 500 * 1048576 + 1]>>
    /\ fx.out = <<2025, 3600>>

\* The number after --concurrency in a command line.
ConcurrencyOf(cmd) ==
    LET c == cmd[CHOOSE i \in 2..Len(cmd) : cmd[i - 1] = "--concurrency"]
    IN  IF c = "2" THEN 2 ELSE IF c = "4" THEN 4 ELSE IF c = "8" THEN 8 ELSE 0
ConcurrencyAsStated(bytes, n) ==
    IF bytes > 1000 * 1048576 \/ n > 200 THEN 2
    ELSE IF bytes > 100 * 1048576 \/ n > 50 THEN 4
    ELSE 8

\* C23: the concurrency is 2, 4 or 8 by the thresholds of the contract (an
\* unmeasured size counting as 0); it does not increase when size or commit
\* count grows; and every attempt of one call is given the same one.
C23_ConcurrencyFallsWithSizeAndCount ==
    /\ (fx.fn = "get_trufflehog_config" /\ fx.done) =>
          /\ \A j \in 1..2 :
                ConcurrencyOf(fx.out[j])
                  = ConcurrencyAsStated(MeasuredOrZero(fx.size[j]), fx.commit_count[j])
          /\ (fx.commit_count[1] <= fx.commit_count[2]
                 /\ MeasuredOrZero(fx.size[1]) <= MeasuredOrZero(fx.size[2]))
             => ConcurrencyOf(fx.out[1]) >= ConcurrencyOf(fx.out[2])
    /\ (fx.fn = "scan_budget" /\ fx.done) =>
          \A a \in 1..Len(fx.out) :
              /\ fx.out[a].cmd = fx.out[1].cmd
              /\ ConcurrencyOf(fx.out[a].cmd)
                    = ConcurrencyAsStated(MeasuredOrZero(fx.cfg_size), fx.commit_count)

\* Exactly 1000 MB and 200 events give 4; one byte more gives 2.
C23_Witness ==
    /\ fx.fn = "get_trufflehog_config"
    /\ fx.done
    /\ fx.commit_count = <<200, 200>>
    /\ fx.size = <<[ok |-> TRUE, bytes |-> 1000 * 1048576],
                   [ok |-> TRUE, bytes |-> 1000 * 1048576 + 1]>>
    /\ ConcurrencyOf(fx.out[1]) = 4
    /\ ConcurrencyOf(fx.out[2]) = 2

(***************************************************************************)
(* C24.  identify_base_commit walks the ancestor list in the order         *)
(* returned and answers with the first live ancestor: when the returned    *)
(* commit is not derived from the candidate itself (no parent lookup was   *)
(* made), it is the commit at the position of the last live check, that    *)
(* commit is live, no commit earlier in the list is live, and the checks   *)
(* run are exactly those of positions 1 .. that position, so none is run   *)
(* on a later commit.                                                      *)
(***************************************************************************)
ReturnedFromTheList ==
    /\ fx.fn = "identify_base_commit"
    /\ fx.done
    /\ fx.out.kind = "return"
    /\ fx.out.value # NotFound
    /\ ~fx.out.parent_lookup

C24_FirstLiveAncestorReturned ==
    ReturnedFromTheList =>
        /\ fx.out.checks \in 1..Len(fx.env.anc)
        /\ fx.out.value = fx.env.anc[fx.out.checks]
        /\ fx.out.value \in fx.env.live
        /\ \A j \in 1..(fx.out.checks - 1) : fx.env.anc[j] \notin fx.env.live
        /\ fx.env.contains_fail_at \notin 1..fx.out.checks

\* Two live commits in a list of three: the walk answers with the earlier
\* one, at the second check, and never checks the third.
C24_Witness ==
    /\ ReturnedFromTheList
    /\ Len(fx.env.anc) = 3
    /\ fx.env.live = {fx.env.anc[2], fx.env.anc[3]}
    /\ fx.out.value = fx.env.anc[2]
    /\ fx.out.checks = 2

(***************************************************************************)
(* C25.  When identify_base_commit returns the empty result for an event,  *)
(* the worker neither aborts the repository nor skips the event: it        *)
(* invokes the scan of that event with the empty text as since_commit,     *)
(* and when the scan has returned it goes on with the findings of the      *)
(* event and then the next event.                                          *)
(***************************************************************************)
ResolvedNotFound ==
    /\ fx.fn = "identify_base_commit"
    /\ fx.done
    /\ fx.out.kind = "return"
    /\ fx.out.value = NotFound

C25_NotFoundIsScannedWithEmptyBase ==
    ResolvedNotFound =>
        IF ~fx.scan_done
        THEN /\ fx.worker.pc = "scan"
             /\ fx.worker.i = 1
             /\ fx.worker.since = NotFound
             /\ ~fx.worker.exc
        ELSE /\ fx.scan_since = NotFound
             /\ 1 \in fx.worker.scanned
             /\ fx.scan_out.kind = "return" =>
                   /\ ~fx.worker.exc
                   /\ IF fx.scan_out.findings = <<>>
                      THEN fx.worker.pc = "resolve" /\ fx.worker.i = 2
                      ELSE /\ fx.worker.pc = "write"
                           /\ fx.worker.i = 1
                           /\ fx.worker.findings = fx.scan_out.findings

\* No ancestor of the candidate is live; the scan of the event ran with the
\* empty base, found nothing, and the worker is at the second event.
C25_Witness ==
    /\ ResolvedNotFound
    /\ fx.env.live = {}
    /\ ~fx.out.parent_lookup
    /\ fx.scan_done
    /\ fx.scan_since = NotFound
    /\ fx.scan_out.kind = "return"
    /\ fx.worker.scanned = {1}
    /\ fx.worker.pc = "resolve"
    /\ fx.worker.i = 2

(***************************************************************************)
(* C26.  Within one repository the events are taken strictly in input      *)
(* order, one at a time: the resolutions made so far are those of events   *)
(* 1, 2, ... in that order, only resolved events are scanned, and when the *)
(* resolution of an event is about to start every earlier event that       *)
(* resolved has had its scan return and every finding of those scans has   *)
(* been through write_finding_to_file (and, no append of the run having    *)
(* failed, is in the file). A worker is at one step at a time, so while    *)
(* one command runs in its workspace (clone, resolve or scan) no other     *)
(* does: during a scan the event scanned is the last one resolved.         *)
(***************************************************************************)
ResolvedInInputOrder(t) ==
    \A n \in 1..Len(task[t].res) : task[t].res[n].ev = n

C26_EventsInOrderOneAtATime ==
    \A t \in AllTasks :
        /\ ResolvedInInputOrder(t)
        /\ task[t].scanned \subseteq EventsResolvedAs(t, "ok")
        /\ task[t].pc = "clone" => task[t].res = <<>>
        /\ task[t].pc = "resolve" =>
              /\ Len(task[t].res) = task[t].i - 1
              /\ task[t].scanned = EventsResolvedAs(t, "ok")
              /\ task[t].findings = <<>>
              /\ task[t].repo_findings = task[t].found
              /\ obs.append_failed = 0 =>
                    Cardinality(FindingsFrom(t)) = task[t].found
        /\ task[t].pc = "scan" =>
              /\ Len(task[t].res) = task[t].i
              /\ LastResolved(t).out = "ok"
              /\ task[t].scanned = EventsResolvedAs(t, "ok") \ {task[t].i}
              /\ task[t].repo_findings = task[t].found

\* The resolution of the second event is about to start: the first event was
\* resolved and scanned, and its one finding is in the file.
C26_Witness ==
    \E t \in AllTasks :
        /\ task[t].pc = "resolve"
        /\ task[t].i = 2
        /\ task[t].scanned = {1}
        /\ task[t].found = 1
        /\ task[t].repo_findings = 1
        /\ Cardinality(FindingsFrom(t)) = 1

(***************************************************************************)
(* C27.  The pool runs at most max_workers repository tasks at a time.     *)
(***************************************************************************)
WorkspacesOfRun == tmpdirs \cap AllTasks
WorkspacesInUse == {t \in WorkspacesOfRun : Running(t)}

\* C27 as stated: at most max_workers tasks are executing and at most
\* max_workers workspaces of the run exist.
C27_WorkspacesWithinPoolSize ==
    /\ NumRunning <= max_workers
    /\ Cardinality(WorkspacesOfRun) <= max_workers

\* C27: at every moment at most max_workers tasks are executing, so at most
\* max_workers workspaces of the run belong to an executing task; every
\* other workspace of the run that exists is one whose task has ended and
\* whose deletion failed.
C27_RunningTasksWithinPoolSize ==
    /\ NumRunning <= max_workers
    /\ Cardinality(WorkspacesInUse) <= max_workers
    /\ \A t \in WorkspacesOfRun \ WorkspacesInUse :
          Finished(t) /\ task[t].released = "failed"

\* One worker thread and two repositories: the deletion of the first
\* workspace failed, the second task is running in its own workspace, and
\* two workspaces of the run exist.
C27_Witness ==
    /\ max_workers = 1
    /\ Len(task) = 2
    /\ task[1].released = "failed"
    /\ Running(2)
    /\ NumRunning = max_workers
    /\ WorkspacesOfRun = {1, 2}

(***************************************************************************)
(* C28.  _file_lock, which guards both the result file with its count and  *)
(* the set of notified organizations, is held only inside the two critical *)
(* sections: its holder is a worker between taking it and the append with  *)
(* the count update, or between the membership test and the insert. No     *)
(* worker holds it while it starts or waits on a subprocess (git clone,    *)
(* the git commands of the resolution, the scan tool, the notifier), and   *)
(* no thread that is not running holds it.                                 *)
(***************************************************************************)
CriticalSectionSteps == {"dump", "gate_add"}
SubprocessSteps == {"clone", "resolve", "scan", "dispatch"}

C28_LockHeldOnlyInCriticalSections ==
    /\ file_lock \in {0} \cup AllTasks
    /\ \A t \in AllTasks :
          /\ file_lock = t => task[t].pc \in CriticalSectionSteps
          /\ task[t].pc \in CriticalSectionSteps => file_lock = t
          /\ task[t].pc \in SubprocessSteps => file_lock # t

\* A worker has appended a finding and inserted the organization, each
\* under the lock, and is about to start the notifier with the lock free,
\* while the other worker is in a command of its own.
C28_Witness ==
    \E t, u \in AllTasks :
        /\ task[t].pc = "dispatch"
        /\ task[u].pc \in {"clone", "resolve", "scan"}
        /\ obs.appended >= 1
        /\ obs.gate_inserts = 1
        /\ file_lock = 0

(***************************************************************************)
(* C29.  The release of the workspace.                                     *)
(***************************************************************************)
Released == fx.fn = "release_workspace" /\ fx.done
AttemptSucceeds(n) == fx.outs[n] \in {"removed", "gone"}

\* The worker ends as it would have had the first attempt removed the
\* directory: it returns the same tuple, or re-raises the exception of its
\* try block, and the failure of the deletion is not raised.
EndsAsWithoutFailure ==
    /\ fx.worker_after.pc = (IF fx.worker.exc THEN "raised" ELSE "returned")
    /\ fx.worker_after.pc = Finish(fx.worker).pc
    /\ fx.worker_after.result = Finish(fx.worker).result
    /\ fx.worker_after.exc = fx.worker.exc

\* C29 as stated: at most 3 attempts, the first success is the last
\* attempt, every failed attempt short of the third is followed by another,
\* and the worker ends as without the failure.
C29_RetriesAfterEveryFailure ==
    Released =>
        /\ fx.out.attempts \in 1..MaxCleanupAttempts
        /\ \A n \in 1..(fx.out.attempts - 1) : ~AttemptSucceeds(n)
        /\ fx.out.success <=> AttemptSucceeds(fx.out.attempts)
        /\ ~fx.out.success => fx.out.attempts = MaxCleanupAttempts
        /\ EndsAsWithoutFailure

\* C29: at most 3 attempts are made; the release stops at the first attempt
\* that succeeds; an attempt that fails with an OSError is followed by
\* another one up to the limit; an attempt that fails with any other
\* exception ends the release at once; and whether or not the directory was
\* removed the worker ends as without the failure.
C29_RetriesAfterOSErrorOnly ==
    Released =>
        /\ fx.out.attempts \in 1..MaxCleanupAttempts
        /\ \A n \in 1..(fx.out.attempts - 1) : fx.outs[n] = "oserror"
        /\ fx.out.success <=> AttemptSucceeds(fx.out.attempts)
        /\ ~fx.out.success =>
              \/ fx.outs[fx.out.attempts] = "other"
              \/ /\ fx.out.attempts = MaxCleanupAttempts
                 /\ fx.outs[MaxCleanupAttempts] = "oserror"
        /\ EndsAsWithoutFailure

\* The second attempt fails with an exception that is not an OSError: the
\* third, which would have removed the directory, is not made, and the
\* worker returns its two commits and one finding.
C29_Witness ==
    /\ Released
    /\ fx.outs = <<"oserror", "other", "removed">>
    /\ fx.out = [success |-> FALSE, attempts |-> 2]
    /\ fx.worker_after.pc = "returned"
    /\ fx.worker_after.released = "failed"
    /\ fx.worker_after.result = <<2, 1>>

(***************************************************************************)
(* C30.  A progress report is emitted after every 10th completion of a     *)
(* repository task and after the final one, whether the tasks return or    *)
(* raise: when n tasks have completed, n \div 10 reports were made, and    *)
(* one more when n is the number of repositories and not a multiple of 10. *)
(***************************************************************************)
Completions == Cardinality(collected)

C30_ProgressAfterFinalCompletion ==
    (obs.opened /\ Len(task) = Len(repos)) =>
        Len(obs.progress) =
            (Completions \div ProgressEvery)
            + (IF Completions = Len(repos) /\ Completions % ProgressEvery # 0
               THEN 1 ELSE 0)

(***************************************************************************)
(* C31.  Between open and close, whenever no append is under way, the      *)
(* result file holds the opening delimiter followed by exactly             *)
(* findings_count elements separated by exactly max(0, findings_count - 1) *)
(* commas, also after an append that failed.                               *)
(***************************************************************************)
BetweenOpenAndClose == obs.opened /\ obs.close_attempts = 0 /\ file.exists
NoAppendUnderWay == file_lock = 0

C31_FileHoldsCountElements ==
    (BetweenOpenAndClose /\ NoAppendUnderWay) =>
        /\ file.text[1] = TokOpen
        /\ ElementList(SubSeq(file.text, 2, Len(file.text)))
        /\ Len(Elements(file.text)) = findings_count
        /\ Len(Commas(file.text)) = (IF findings_count > 0 THEN findings_count - 1 ELSE 0)

(***************************************************************************)
(* C32.  The order of scan_commits: before any repository task is          *)
(* dispatched the count and the notified set were reset, the workspaces    *)
(* swept once and the opening delimiter written; an append is made only    *)
(* between the writing of the opening delimiter and the attempt to write   *)
(* the closing one (when that is attempted every task has finished); and   *)
(* the second sweep is made after the close.                               *)
(***************************************************************************)
Appending(t) == task[t].pc \in {"write", "dump"}

C32_OrchestrationOrder ==
    /\ Len(task) > 0 => (obs.opened /\ obs.sweeps >= 1)
    /\ (opc = "submit" /\ Len(task) = 0) =>
          /\ findings_count = 0
          /\ notified_orgs = {}
          /\ obs.sweeps = 1
          /\ file = [exists |-> TRUE, text |-> <<TokOpen>>]
    /\ obs.append_calls > 0 => obs.opened
    /\ \A t \in AllTasks : Appending(t) => (obs.opened /\ obs.close_attempts = 0)
    /\ obs.close_attempts >= 1 => \A t \in AllTasks : Finished(t)
    /\ obs.sweeps = 2 => obs.close_attempts = 1
    /\ (opc = "done" /\ obs.opened) => obs.sweeps = 2

\* A run that appended a finding, closed the file and swept twice.
C32_Witness ==
    /\ opc = "done"
    /\ obs.appended >= 1
    /\ obs.close_attempts = 1
    /\ ~obs.close_failed
    /\ obs.sweeps = 2
    /\ ParsesAsArray(file.text)

(***************************************************************************)
(* C33.  A finding that fails one of the gate's checks (not verified, no   *)
(* detector name, no raw secret, no commit identity) leaves the notified   *)
(* set as it was and starts no dispatch; so when such a finding comes      *)
(* first and the set was empty, a finding that passes every check still    *)
(* inserts the organization and has its dispatch attempted.                *)
(***************************************************************************)
PassesEveryCheck(f) ==
    /\ f.Verified = "true"
    /\ f.DetectorName = "name"
    /\ f.Raw = "secret"
    /\ f.SourceMetadata = "git"

GateCalled == fx.fn = "send_immediate_notification"

C33_InvalidFindingLeavesGateOpen ==
    GateCalled =>
        \A n \in 1..Len(fx.log) :
            /\ ~PassesEveryCheck(fx.findings[n]) =>
                  /\ fx.log[n].after = fx.log[n].before
                  /\ fx.log[n].outcome = "none"
            /\ (PassesEveryCheck(fx.findings[n]) /\ fx.log[n].before = {}) =>
                  /\ fx.log[n].after = {InputOrg}
                  /\ fx.log[n].outcome \in DispatchOutcomes

\* A finding without raw content, then one that passes: the first leaves
\* the set empty, the second inserts the organization and the notifier is
\* started.
C33_Witness ==
    /\ GateCalled
    /\ Len(fx.log) = 2
    /\ fx.findings = <<[GoodLine EXCEPT !.Raw = "absent"], GoodLine>>
    /\ fx.log[1] = [before |-> {}, after |-> {}, outcome |-> "none"]
    /\ fx.log[2] = [before |-> {}, after |-> {InputOrg}, outcome |-> "dispatched"]

(***************************************************************************)
(* C34.  Within a run the organization is in the notified set from its     *)
(* one insertion on, the insertion precedes the dispatch attempt, and      *)
(* there is one dispatch attempt for one insertion: at most one dispatch   *)
(* per run, and none at all, then or later, when the attempt of the        *)
(* first valid finding was skipped (no channel, no script) or failed.      *)
(***************************************************************************)
Dispatching == {t \in AllTasks : task[t].pc = "dispatch"}
DispatchAttempted == obs.dispatch_outcome # "none"
DispatchSkippedOrFailed ==
    obs.dispatch_outcome \in {"no_channel", "no_script", "tempfile_failed", "popen_failed"}

C34_InsertedOnceBeforeDispatch ==
    obs.opened =>
        /\ obs.gate_inserts <= 1
        /\ obs.gate_inserts = 1 <=> InputOrg \in notified_orgs
        /\ Dispatching # {} => InputOrg \in notified_orgs
        /\ Cardinality(Dispatching) + (IF DispatchAttempted THEN 1 ELSE 0)
              = obs.gate_inserts
        /\ obs.dispatches <= 1
        /\ obs.dispatches = 1 <=> obs.dispatch_outcome = "dispatched"
        /\ DispatchSkippedOrFailed =>
              /\ obs.dispatches = 0
              /\ InputOrg \in notified_orgs
              /\ \A t \in AllTasks : task[t].pc \notin {"gate_add", "dispatch"}

\* Two findings passed the checks; the dispatch of the first was skipped
\* for want of a channel, and the second started none.
C34_Witness ==
    /\ opc = "done"
    /\ obs.valid_findings = 2
    /\ obs.dispatch_outcome = "no_channel"
    /\ obs.dispatches = 0
    /\ notified_orgs = {InputOrg}

(***************************************************************************)
(* C35.  In a run in which no repository task raises, when every task has  *)
(* been collected and the file closed, the findings counts returned by     *)
(* the tasks add up to findings_count, the number the summary reports,     *)
(* and to the number of elements in the result file, whatever the          *)
(* outcomes of the appends.                                                *)
(***************************************************************************)
RECURSIVE SumFindingsEmitted(_)
SumFindingsEmitted(n) ==
    IF n = 0 THEN 0 ELSE SumFindingsEmitted(n - 1) + task[n].result[2]

NoTaskRaised == \A t \in AllTasks : task[t].pc # "raised"

C35_EmittedSumIsSinkCount ==
    (opc = "summary" /\ NoTaskRaised) =>
        /\ SumFindingsEmitted(Len(task)) = findings_count
        /\ SumFindingsEmitted(Len(task)) = Len(Elements(file.text))

(***************************************************************************)
(* C36.  The commits_scanned that scan_single_repo returns is the number   *)
(* of events with a reference _SHA_RE accepts for which the resolution was *)
(* started: an event skipped for "not our ref" and the event whose         *)
(* resolution ended the loop are counted, the events after that one and    *)
(* the events with a reference _SHA_RE rejects are not; it never exceeds   *)
(* the number of events.                                                   *)
(***************************************************************************)
\* The count expected from the events i..n and the outcomes of their
\* resolutions, computed from the inputs.
RECURSIVE ExpectedCommitsScanned(_, _, _)
ExpectedCommitsScanned(commits, routs, i) ==
    IF i > Len(commits) THEN 0
    ELSE IF ~SHA_RE_fullmatch(commits[i].before)
         THEN ExpectedCommitsScanned(commits, routs, i + 1)
         ELSE IF routs[i] = "other" THEN 1
         ELSE 1 + ExpectedCommitsScanned(commits, routs, i + 1)

LoopReturned == fx.fn = "scan_single_repo" /\ fx.worker.pc = "returned"

C36_CommitsScannedCountsResolutionsStarted ==
    (LoopReturned /\ ~fx.worker.clone_failed) =>
        /\ fx.worker.result[1] = ExpectedCommitsScanned(fx.commits, fx.routs, 1)
        /\ fx.worker.result[1] = Len(fx.worker.res)
        /\ fx.worker.result[1] <= Len(fx.commits)
        /\ \A n \in 1..Len(fx.worker.res) :
              SHA_RE_fullmatch(fx.commits[fx.worker.res[n].ev].before)

\* Three events: the first has a reference that is too short, the second
\* is skipped for "not our ref", on the third the resolution ends the loop;
\* the worker returns 2.
C36_Witness ==
    /\ LoopReturned
    /\ Len(fx.commits) = 3
    /\ fx.commits[1].before = RefShort
    /\ fx.commits[2].before = RefA
    /\ fx.commits[3].before = RefA
    /\ fx.worker.res = <<[ev |-> 2, out |-> "not_our_ref"], [ev |-> 3, out |-> "other"]>>
    /\ fx.worker.result = <<2, 0>>

(***************************************************************************)
(* C37.  Within one run of scan_commits the sweep of the workspaces runs   *)
(* only while no worker of the run holds a workspace: once before the      *)
(* first task is dispatched, and in a run that opened its file once more   *)
(* after the last task has finished. While a task is queued or running     *)
(* exactly one sweep has been made, and a running worker that created its  *)
(* workspace still has it.                                                 *)
(***************************************************************************)
C37_SweepOnlyWhileNoWorkerRuns ==
    /\ obs.sweeps <= 2
    /\ Len(task) > 0 => obs.sweeps >= 1
    /\ (\E t \in AllTasks : ~Finished(t)) => obs.sweeps = 1
    /\ obs.sweeps = 2 =>
          /\ Len(task) = Len(repos)
          /\ \A t \in AllTasks : Finished(t)
          /\ obs.close_attempts = 1
    /\ \A t \in AllTasks : (Running(t) /\ task[t].created) => t \in tmpdirs
    /\ (opc = "done" /\ obs.opened) => obs.sweeps = 2

\* Both sweeps were made; the deletion of a workspace had failed, and the
\* directory went with the second sweep, after its worker had finished.
C37_Witness ==
    /\ opc = "done"
    /\ obs.sweeps = 2
    /\ Len(task) = 2
    /\ \E t \in AllTasks : task[t].created /\ task[t].released = "failed"
    /\ tmpdirs = {}

(***************************************************************************)
(* C38.  _file_lock is never requested by the thread that holds it: a      *)
(* worker about to enter write_finding_to_file or the with block of the    *)
(* gate does not hold it. Its holder can always take the step that         *)
(* releases it, a worker waiting for it can enter as soon as it is free,   *)
(* and no worker holds it past its critical section, a failed append       *)
(* included: a finished worker does not hold it and at the end of the run  *)
(* it is free.                                                             *)
(***************************************************************************)
RequestsLock(t) == task[t].pc \in {"write", "gate"}
ReleaseStep(t) == WriteDumpOk(t) \/ WriteDumpFail(t) \/ GateAdd(t)
EnterStep(t) == WriteBegin(t) \/ WriteOpenFail(t) \/ GateSeen(t) \/ GateNew(t)

C38_LockNeverRequestedByHolder ==
    \A t \in AllTasks :
        /\ RequestsLock(t) => file_lock # t
        /\ file_lock = t => ENABLED ReleaseStep(t)
        /\ (RequestsLock(t) /\ file_lock = 0) => ENABLED EnterStep(t)
        /\ Finished(t) => file_lock # t
        /\ ScanCommitsReturned => file_lock = 0

\* After an append of the run failed, a worker holds the lock again, for
\* the insertion into the notified set, while its sibling waits to append.
C38_Witness ==
    \E t, u \in AllTasks :
        /\ obs.append_failed >= 1
        /\ file_lock = t
        /\ task[t].pc = "gate_add"
        /\ task[u].pc = "write"

====
